---- MODULE Spec2Model ----
(***************************************************************************)
(* GCP Budget Guard: the budget reconciliation core.                       *)
(*                                                                         *)
(*   StateManager         services/state_manager.py   (the ledger)         *)
(*   NotificationService  services/notification.py    (alerts, cooldown)   *)
(*   BudgetMonitorService services/budget_monitor.py  (check / reset)      *)
(*   ServiceBudget        config/budget.py            (usage_pct, exceeded)*)
(*                                                                         *)
(* Money is counted in whole currency units, which lie on the 1e-6 grid of *)
(* round(cost, 6).  Time is counted in ticks of the alert cooldown clock,  *)
(* billing months are numbered 1, 2, ...                                   *)
(*                                                                         *)
(* Spec        one BudgetMonitorService: check cycles (one service per     *)
(*             step, in SERVICE_METRICS order), resets, clocks.            *)
(* SpecLedger  the StateManager alone, its public methods called freely.   *)
(***************************************************************************)
EXTENDS Integers, Sequences, FiniteSets, TLC

\* ------------------------------------------------------------------ bounds
\* Billing months a behaviour spans.
MaxMonth == 2
\* Ticks the cooldown clock advances in a behaviour.
MaxTime == 1
\* Resets a behaviour performs (each appends one audit entry).
MaxResets == 1
\* Line items of the service in use (SpecItems).
MaxItems == 2
\* StateManager calls the threads of SpecLock make in all.
MaxCalls == 3
\* Ledger calls a behaviour of SpecLedger performs.
MaxOps == 5

\* ----------------------------------------------------------- configuration
\* helpers/constants.py: the monitored services and their APIs.
MONITORED_API_SERVICES ==
    [vertex_ai |-> "aiplatform.googleapis.com",
     bigquery  |-> "bigquery.googleapis.com",
     firestore |-> "firestore.googleapis.com"]

\* config/monitored_services_list.py: SERVICE_METRICS, in iteration order.
ServiceOrder == <<"vertex_ai", "bigquery", "firestore">>

Services == {ServiceOrder[i] : i \in 1..Len(ServiceOrder)}

VERTEX_AI_MONTHLY_BUDGET == 100
BIGQUERY_MONTHLY_BUDGET == 100
FIRESTORE_MONTHLY_BUDGET == 100
WARNING_THRESHOLD_PCT == 80
\* helpers/constants.py: the critical percentage when the environment sets
\* none.
CRITICAL_THRESHOLD_PCT == 100
\* The cooldown of the notification service, in ticks of the model clock.
ALERT_COOLDOWN_SECONDS == 1
\* StateManager.record_action keeps the last 200 entries.
HistoryLimit == 200

\* helpers/constants.py: the budgets when the environment sets none.
DefaultBudgets ==
    [s \in Services |->
        CASE s = "vertex_ai" -> VERTEX_AI_MONTHLY_BUDGET
          [] s = "bigquery"  -> BIGQUERY_MONTHLY_BUDGET
          [] OTHER           -> FIRESTORE_MONTHLY_BUDGET]

Levels == {"WARNING", "CRITICAL"}

\* What the line items of a service can add up to in one cycle: the expense
\* (price x units) of each line item, in list order.
ItemReadings == { <<80, 0>>, <<80, 20>>, <<100, 80>> }

\* The service of the project that is in use.
ActiveService == ServiceOrder[2]

NoMonth == 0

\* ------------------------------------------------------------------- state
VARIABLES
    \* StateManager._state
    baselines, last_known_costs, alerts_sent, action_history, current_month,
    \* BudgetMonitorService._pending_rollover, NotificationService._last_sent
    pending_rollover, last_sent,
    \* helpers/constants.py DRY_RUN_MODE, read once from the environment
    dry_run,
    \* the environment: current UTC month, time.time()
    month, now,
    \* the check cycle in flight: position, its ProjectBudget, its lists,
    \* the calls of its last step (in order) and the summary it returns
    pc, idx, budget, disabled_apis, warnings_sent, calls, summary,
    metric_details, data_warnings,
    \* observers: alerts delivered per (service, level) since the last
    \* reset or rollover; whether the raw cost seen since then never fell;
    \* resets performed
    alert_count, mono, resets,
    \* SpecLedger: result of the last check_month_rollover call, what the
    \* ledger held just before the last call, calls made
    rollover_ret, before, nops,
    \* SpecReset: the HTTP request being answered, with the calls it made
    reply,
    \* SpecLock: StateManager._lock (0 when free, else the thread holding
    \* it), the position of each thread in its StateManager call, the
    \* persisted document, and the ledger the calls give when applied one
    \* after the other in the order the lock was granted
    lock, threads, doc, serial,
    \* SpecNotify: what the channels answered to the alert of the last step;
    \* SpecApis, SpecPrices: the wrapper or provider call in progress
    channels, call,
    \* helpers/constants.py *_MONTHLY_BUDGET and CRITICAL_THRESHOLD_PCT, read
    \* once from the environment
    service_budgets, critical_threshold_pct,
    \* SpecRace: the state of each API at the Service Usage API;
    \* SpecOverlap: the fields a cycle computes on the module-level
    \* MonitoredMetric object; SpecInstances: the _state of the StateManager
    \* of a second instance of the service
    api_status, shared_metric, peer_state

ledger == <<baselines, last_known_costs, alerts_sent, action_history, current_month>>
cycle == <<pc, idx, budget, disabled_apis, warnings_sent, calls, summary,
           metric_details, data_warnings>>
observers == <<alert_count, mono, resets>>
locking == <<lock, threads, doc, serial>>
probes == <<channels, call, service_budgets, critical_threshold_pct,
            api_status, shared_metric, peer_state>>

\* config/budget.py: ProjectBudget.__post_init__, the budget of each service.
monthly_budget(s) == service_budgets[s]
harness == <<rollover_ret, before, nops, reply, locking, probes>>
vars == <<ledger, pending_rollover, last_sent, dry_run, month, now,
          cycle, observers, harness>>

\* The threads of the process that share the StateManager.
Threads == {1, 2}

\* A thread that is in no StateManager call.
NoCall == [name |-> "", key |-> "", cost |-> 0, level |-> "", month |-> NoMonth]
Returned == [pc |-> "idle", op |-> NoCall, buf |-> <<>>]

\* Every monitored API enabled.
AllEnabled == [s \in Services |-> "ENABLED"]

\* MonitoredMetric as constructed: price_per_unit None, no units, no expense.
FreshMetric == [price_per_unit |-> <<>>, unit_count |-> 0, expense |-> 0]

\* The _state of a StateManager over an empty backend.
EmptyState ==
    [baselines |-> << >>, last_known_costs |-> << >>, alerts_sent |-> << >>,
     action_history |-> <<>>, current_month |-> NoMonth]

\* StateManager._state as one document.
LedgerDoc ==
    [baselines |-> baselines, last_known_costs |-> last_known_costs,
     alerts_sent |-> alerts_sent, action_history |-> action_history,
     current_month |-> current_month]

\* SpecHistory: calls of record_action in one run, enough to pass the limit.
MaxAppends == 203

\* ------------------------------------------------------------ dict helpers
EmptyDict == [k \in {} |-> 0]
DictGet(d, k, default) == IF k \in DOMAIN d THEN d[k] ELSE default
DictSet(d, k, v) == [x \in (DOMAIN d) \cup {k} |-> IF x = k THEN v ELSE d[x]]
DictPop(d, k) == [x \in (DOMAIN d) \ {k} |-> d[x]]

Max(a, b) == IF a >= b THEN a ELSE b

RECURSIVE SumSeq(_)
SumSeq(q) == IF q = <<>> THEN 0 ELSE Head(q) + SumSeq(Tail(q))

\* round(cost, 6): costs are whole currency units, already on the grid.
Round6(cost) == cost

\* ------------------------------------------------ StateManager (the ledger)
\* get_baseline: the baseline of a service, 0 when none is set.
get_baseline(s) == DictGet(baselines, s, 0)

\* set_baseline: the value of "baselines" after the call.
set_baseline(bl, s, cost) == DictSet(bl, s, Round6(cost))

\* Variant: the cost is stored net of the baseline of the service.
set_last_known_cost_Adjusted(lk, s, cost) ==
    DictSet(lk, s, Round6(Max(0, cost - get_baseline(s))))

\* set_last_known_cost: the value of "last_known_costs" after the call.
set_last_known_cost(lk, s, cost) == DictSet(lk, s, Round6(cost))

\* set_alert_sent: the value of "alerts_sent" after the call; a level is
\* appended to the list of the service unless it is already there.
set_alert_sent(al, s, level) ==
    LET levels == DictGet(al, s, <<>>)
    IN  DictSet(al, s,
                IF \E i \in DOMAIN levels : levels[i] = level
                THEN levels ELSE Append(levels, level))

\* Variant: the alert flags of every service are cleared.
reset_alerts_ClearsAll(al, s) == [k \in {} |-> 0]

\* reset_alerts: the value of "alerts_sent" after the call.
reset_alerts(al, s) == DictPop(al, s)

\* Variant: the first 200 entries are kept instead of the last.
record_action_KeepsOldest(history, entry) ==
    LET h == Append(history, entry)
    IN  IF Len(h) > HistoryLimit THEN SubSeq(h, 1, HistoryLimit) ELSE h

\* record_action: the value of "action_history" after the call.  An entry
\* is its action and the service it is about ("all" for every service);
\* its timestamp and details are left out.
record_action(history, entry) ==
    LET h == Append(history, entry)
    IN  IF Len(h) > HistoryLimit
        THEN SubSeq(h, Len(h) - HistoryLimit + 1, Len(h))
        ELSE h

\* Variant: the baselines are cleared on every call, rollover or not.
check_month_rollover_AlwaysClears(result) ==
    IF current_month = month
    THEN /\ result = FALSE
         /\ baselines' = EmptyDict
         /\ UNCHANGED <<alerts_sent, last_known_costs, current_month>>
    ELSE /\ result = TRUE
         /\ baselines' = EmptyDict
         /\ alerts_sent' = EmptyDict
         /\ last_known_costs' = EmptyDict
         /\ current_month' = month

\* Variant: a rollover that keeps the last known costs.
check_month_rollover_KeepsCosts(result) ==
    IF current_month = month
    THEN /\ result = FALSE
         /\ UNCHANGED <<baselines, alerts_sent, last_known_costs, current_month>>
    ELSE /\ result = TRUE
         /\ baselines' = EmptyDict
         /\ alerts_sent' = EmptyDict
         /\ last_known_costs' = last_known_costs
         /\ current_month' = month

\* check_month_rollover: one locked step; "result" is what it returns.
check_month_rollover(result) ==
    IF current_month = month
    THEN /\ result = FALSE
         /\ UNCHANGED <<baselines, alerts_sent, last_known_costs, current_month>>
    ELSE /\ result = TRUE
         /\ baselines' = EmptyDict
         /\ alerts_sent' = EmptyDict
         /\ last_known_costs' = EmptyDict
         /\ current_month' = month

\* ------------------------------------------------------------ ServiceBudget
\* usage_pct, rounded down to a whole percent: comparing it with a whole
\* threshold gives the same answer as comparing the exact quotient.
usage_pct(s, current_expense) ==
    IF monthly_budget(s) <= 0 THEN 0
    ELSE (current_expense * 100) \div monthly_budget(s)

\* Variant: exceeded as soon as the warning threshold is reached.
is_exceeded_AtWarning(s, current_expense) ==
    monthly_budget(s) > 0 /\ usage_pct(s, current_expense) >= WARNING_THRESHOLD_PCT

\* Variant: the budget is not required to be positive.
is_exceeded_NoBudgetGuard(s, current_expense) ==
    current_expense >= monthly_budget(s)

is_exceeded(s, current_expense) ==
    monthly_budget(s) > 0 /\ current_expense >= monthly_budget(s)

\* ------------------------------------------------------ NotificationService
\* The cooldown test of _send_alert: last = _last_sent.get(key, 0).
InCooldown(s, level) ==
    now - DictGet(last_sent, <<s, level>>, 0) < ALERT_COOLDOWN_SECONDS

\* Variant: every alert that passes the cooldown test is reported as sent.
send_alert_AttemptIsSent(s, level, disabled, email_ok, pubsub_ok) ==
    LET suppressed == InCooldown(s, level)
    IN  [op |-> "alert", svc |-> s, level |-> level, disabled |-> disabled,
         suppressed |-> suppressed,
         email |-> ~suppressed /\ email_ok,
         pubsub |-> ~suppressed /\ pubsub_ok,
         sent |-> ~suppressed]

\* _send_alert: the record of one call.  email_ok / pubsub_ok say whether
\* the channel delivers (an unconfigured channel does not).
send_alert(s, level, disabled, email_ok, pubsub_ok) ==
    LET suppressed == InCooldown(s, level)
    IN  [op |-> "alert", svc |-> s, level |-> level, disabled |-> disabled,
         suppressed |-> suppressed,
         email |-> ~suppressed /\ email_ok,
         pubsub |-> ~suppressed /\ pubsub_ok,
         sent |-> ~suppressed /\ (email_ok \/ pubsub_ok)]

send_warning_alert(s, email_ok, pubsub_ok) ==
    send_alert(s, "WARNING", FALSE, email_ok, pubsub_ok)

send_critical_alert(s, disabled, email_ok, pubsub_ok) ==
    send_alert(s, "CRITICAL", disabled, email_ok, pubsub_ok)

\* _last_sent after the alerts "evs" of one service evaluation.
LastSentAfter(ls, evs) ==
    [k \in DOMAIN ls \cup {<<evs[i].svc, evs[i].level>> :
                             i \in {j \in DOMAIN evs : evs[j].sent}} |->
        IF \E i \in DOMAIN evs : evs[i].sent /\ k = <<evs[i].svc, evs[i].level>>
        THEN now ELSE ls[k]]

\* NotificationService.reset_alerts(service_key), called by reset_service:
\* the alert flags of the service are cleared so that new alerts can fire.
notifications_reset_flags(al, s) == reset_alerts(al, s)

\* Variant: the reset leaves the send times of the service in place.
notifications_reset_cooldown_Keeps(ls, s) == ls

notifications_reset_cooldown(ls, s) ==
    [k \in {x \in DOMAIN ls : x[1] # s} |-> ls[k]]

\* ---------------------------------------------------------- WrapperCloudAPIs
\* disable_api: the record of one call.  In dry-run the wrapper issues no
\* request and answers True.
disable_api(api, ok) ==
    [op |-> "disable", api |-> api, issued |-> ~dry_run,
     ok |-> IF dry_run THEN TRUE ELSE ok]

enable_api(api, ok) ==
    [op |-> "enable", api |-> api, issued |-> ~dry_run,
     ok |-> IF dry_run THEN TRUE ELSE ok]

\* ------------------------------------------------------ BudgetMonitorService
\* Variants: the baseline is not subtracted; the difference is not clamped.
EffectiveExpense_IgnoreBaseline(raw, baseline) == raw

EffectiveExpense_Unclamped(raw, baseline) ==
    IF baseline > 0 THEN raw - baseline ELSE raw

\* run_check: the expense the thresholds are decided on, from the raw
\* cumulative cost of the cycle and the baseline of the ledger.
EffectiveExpense(raw, baseline) ==
    IF baseline > 0 THEN Max(0, raw - baseline) ELSE raw

\* Variants: the wrapper is called in dry-run too; success is reported
\* whatever the wrapper answers.
disable_service_NoDryRunCheck(api, ok) ==
    LET e == disable_api(api, ok)
    IN  [success |-> e.ok, calls |-> <<e>>]

disable_service_ReportsSuccess(api, ok) ==
    IF dry_run
    THEN [success |-> FALSE, calls |-> <<>>]
    ELSE [success |-> TRUE, calls |-> <<disable_api(api, ok)>>]

\* _disable_service: in dry-run nothing is called and False is returned.
disable_service(api, ok) ==
    IF dry_run
    THEN [success |-> FALSE, calls |-> <<>>]
    ELSE LET e == disable_api(api, ok)
         IN  [success |-> e.ok, calls |-> <<e>>]

\* Variant: the API is disabled only when a critical alert is due, not
\* while one was sent within the cooldown.
ThresholdStep_DisableWhenAlertDue(s, expense, disable_ok, email_ok, pubsub_ok) ==
    LET warn == /\ usage_pct(s, expense) >= WARNING_THRESHOLD_PCT
                /\ ~is_exceeded(s, expense)
        due == ~InCooldown(s, "CRITICAL")
        w == send_warning_alert(s, email_ok, pubsub_ok)
        d == disable_service(MONITORED_API_SERVICES[s], disable_ok)
        c == send_critical_alert(s, due /\ d.success, email_ok, pubsub_ok)
    IN  [calls |-> (IF warn THEN <<w>> ELSE <<>>)
                   \o (IF is_exceeded(s, expense)
                       THEN (IF due THEN d.calls ELSE <<>>) \o <<c>> ELSE <<>>),
         warnings_sent |-> IF warn /\ w.sent THEN <<s>> ELSE <<>>,
         disabled_apis |-> IF is_exceeded(s, expense) /\ due /\ d.success
                           THEN <<MONITORED_API_SERVICES[s]>> ELSE <<>>]

\* Variant: the critical alert is sent before the API is disabled.
ThresholdStep_AlertFirst(s, expense, disable_ok, email_ok, pubsub_ok) ==
    LET warn == /\ usage_pct(s, expense) >= WARNING_THRESHOLD_PCT
                /\ ~is_exceeded(s, expense)
        w == send_warning_alert(s, email_ok, pubsub_ok)
        d == disable_service(MONITORED_API_SERVICES[s], disable_ok)
        c == send_critical_alert(s, d.success, email_ok, pubsub_ok)
    IN  [calls |-> (IF warn THEN <<w>> ELSE <<>>)
                   \o (IF is_exceeded(s, expense) THEN <<c>> \o d.calls ELSE <<>>),
         warnings_sent |-> IF warn /\ w.sent THEN <<s>> ELSE <<>>,
         disabled_apis |-> IF is_exceeded(s, expense) /\ d.success
                           THEN <<MONITORED_API_SERVICES[s]>> ELSE <<>>]

\* Variant: the warning is also raised for an exceeded service.
ThresholdStep_WarnWhenExceeded(s, expense, disable_ok, email_ok, pubsub_ok) ==
    LET warn == usage_pct(s, expense) >= WARNING_THRESHOLD_PCT
        w == send_warning_alert(s, email_ok, pubsub_ok)
        d == disable_service(MONITORED_API_SERVICES[s], disable_ok)
        c == send_critical_alert(s, d.success, email_ok, pubsub_ok)
    IN  [calls |-> (IF warn THEN <<w>> ELSE <<>>)
                   \o (IF is_exceeded(s, expense) THEN d.calls \o <<c>> ELSE <<>>),
         warnings_sent |-> IF warn /\ w.sent THEN <<s>> ELSE <<>>,
         disabled_apis |-> IF is_exceeded(s, expense) /\ d.success
                           THEN <<MONITORED_API_SERVICES[s]>> ELSE <<>>]

\* run_check, the threshold part for one service: the calls it makes, in
\* order, and what it appends to disabled_apis and warnings_sent.
ThresholdStep(s, expense, disable_ok, email_ok, pubsub_ok) ==
    LET warn == /\ usage_pct(s, expense) >= WARNING_THRESHOLD_PCT
                /\ ~is_exceeded(s, expense)
        w == send_warning_alert(s, email_ok, pubsub_ok)
        d == disable_service(MONITORED_API_SERVICES[s], disable_ok)
        c == send_critical_alert(s, d.success, email_ok, pubsub_ok)
    IN  [calls |-> (IF warn THEN <<w>> ELSE <<>>)
                   \o (IF is_exceeded(s, expense) THEN d.calls \o <<c>> ELSE <<>>),
         warnings_sent |-> IF warn /\ w.sent THEN <<s>> ELSE <<>>,
         disabled_apis |-> IF is_exceeded(s, expense) /\ d.success
                           THEN <<MONITORED_API_SERVICES[s]>> ELSE <<>>]

\* Variant: only the first monitored API is re-enabled.
re_enable_all_services_FirstOnly(okset) ==
    <<enable_api(MONITORED_API_SERVICES[ServiceOrder[1]], ServiceOrder[1] \in okset)>>

\* _re_enable_all_services: one enable call per monitored API, in order;
\* "okset" are the services whose enable call succeeds.
re_enable_all_services(okset) ==
    [i \in 1..Len(ServiceOrder) |->
        enable_api(MONITORED_API_SERVICES[ServiceOrder[i]], ServiceOrder[i] \in okset)]

\* The enable calls of one re-enable-all pass that succeed: all of them,
\* only the first, none.
EnableOutcomes == {Services, {ServiceOrder[1]}, {}}

IsAlert(e) == e.op = "alert"
IsOk(e) == e.ok
ApiOf(e) == e.api

RECURSIVE MapApi(_)
MapApi(q) == IF q = <<>> THEN <<>> ELSE <<ApiOf(Head(q))>> \o MapApi(Tail(q))

NoAlerts == [s \in Services |-> [l \in Levels |-> 0]]
AllMono == [s \in Services |-> TRUE]
FreshBudget == [s \in Services |-> 0]

\* Alerts of level l delivered for s, counted up to 2.
Counted(n, evs, l) ==
    IF \E i \in DOMAIN evs : evs[i].level = l /\ evs[i].sent
    THEN (IF n >= 2 THEN 2 ELSE n + 1) ELSE n

\* run_check, first part: rollover check, re-enable-all when a rollover
\* was detected now or at construction, then a fresh ProjectBudget.
RunCheckBegin ==
    /\ pc = "idle"
    /\ \E rollover \in BOOLEAN, okset \in EnableOutcomes :
          LET reenable == rollover \/ pending_rollover
              evs == re_enable_all_services(okset)
              re_enabled == MapApi(SelectSeq(evs, IsOk))
          IN  /\ check_month_rollover(rollover)
              /\ (~reenable \/ dry_run) => okset = Services
              /\ pending_rollover' = IF reenable THEN FALSE ELSE pending_rollover
              /\ action_history' =
                    IF reenable /\ re_enabled # <<>>
                    THEN record_action(action_history,
                            [action |-> "monthly_reset_reenable",
                             service_key |-> "all"])
                    ELSE action_history
              /\ calls' = IF reenable THEN evs ELSE <<>>
              /\ alert_count' = IF rollover THEN NoAlerts ELSE alert_count
              /\ mono' = IF rollover THEN AllMono ELSE mono
    /\ pc' = "eval"
    /\ idx' = 1
    /\ budget' = FreshBudget
    /\ disabled_apis' = <<>>
    /\ warnings_sent' = <<>>
    /\ metric_details' = <<>>
    /\ data_warnings' = <<>>
    /\ summary' = <<>>
    /\ UNCHANGED <<last_sent, dry_run, month, now, resets, harness>>

\* What the usage and price sources report for the line items of s: one
\* service is in use, the others report no usage.
Readings(s) == IF s = ActiveService THEN ItemReadings ELSE {<<0, 0>>}

\* run_check, the loop body for the next service of SERVICE_METRICS, given
\* the expenses of its line items: accumulation, last known cost, baseline,
\* thresholds.
EvaluateService(items, disable_ok, email_ok, pubsub_ok) ==
    /\ LET s == ServiceOrder[idx]
           raw_cumulative_cost == budget[s] + SumSeq(items)
           baseline == get_baseline(s)
           expense == EffectiveExpense(raw_cumulative_cost, baseline)
           step == ThresholdStep(s, expense, disable_ok, email_ok, pubsub_ok)
           alerts == SelectSeq(step.calls, IsAlert)
       IN  /\ last_known_costs' =
                 set_last_known_cost(last_known_costs, s, raw_cumulative_cost)
           /\ budget' = [budget EXCEPT ![s] = expense]
           /\ calls' =
                 <<[op |-> "eval", svc |-> s, items |-> items,
                    raw |-> raw_cumulative_cost, baseline |-> baseline,
                    expense |-> expense]>> \o step.calls
           /\ last_sent' = LastSentAfter(last_sent, alerts)
           /\ disabled_apis' = disabled_apis \o step.disabled_apis
           /\ warnings_sent' = warnings_sent \o step.warnings_sent
           /\ alert_count' = [alert_count EXCEPT ![s] =
                 [l \in Levels |-> Counted(alert_count[s][l], alerts, l)]]
           /\ mono' = [mono EXCEPT ![s] =
                 @ /\ raw_cumulative_cost >= DictGet(last_known_costs, s, 0)]
    /\ idx' = idx + 1
    /\ UNCHANGED <<baselines, alerts_sent, action_history, current_month,
                   pending_rollover, dry_run, month, now, pc, summary, resets>>

\* The loop body with the line items of the service taken as a whole.
CheckService ==
    /\ pc = "eval"
    /\ idx <= Len(ServiceOrder)
    /\ \E items \in Readings(ServiceOrder[idx]), disable_ok \in BOOLEAN,
          email_ok \in BOOLEAN, pubsub_ok \in BOOLEAN :
          EvaluateService(items, disable_ok, email_ok, pubsub_ok)
    /\ UNCHANGED <<metric_details, data_warnings, harness>>

\* run_check, last part: the summary.
RunCheckEnd ==
    /\ pc = "eval"
    /\ idx > Len(ServiceOrder)
    /\ summary' = <<[dry_run |-> dry_run, budget |-> budget,
                     disabled_apis |-> disabled_apis,
                     warnings_sent |-> warnings_sent,
                     metric_details |-> metric_details,
                     data_warnings |-> data_warnings]>>
    /\ pc' = "done"
    /\ UNCHANGED <<ledger, pending_rollover, last_sent, dry_run, month, now,
                   idx, budget, disabled_apis, warnings_sent, calls,
                   metric_details, data_warnings, observers, harness>>

\* fastapi_app/routes.py run_budget_check: the summary is returned and the
\* locals of the cycle are gone.
RunCheckReturn ==
    /\ pc = "done"
    /\ pc' = "idle"
    /\ idx' = 0
    /\ budget' = FreshBudget
    /\ disabled_apis' = <<>>
    /\ warnings_sent' = <<>>
    /\ calls' = <<>>
    /\ metric_details' = <<>>
    /\ data_warnings' = <<>>
    /\ summary' = <<>>
    /\ UNCHANGED <<ledger, pending_rollover, last_sent, dry_run, month, now,
                   observers, harness>>

\* _get_current_cumulative_cost: the live month-to-date cost of a service,
\* the sum over its line items.
get_current_cumulative_cost(items) == SumSeq(items)

\* reset_service(service_key) for a monitored service.
ResetService(s) ==
    /\ resets < MaxResets
    /\ \E live \in Readings(s), enable_ok \in BOOLEAN :
          LET cumulative_cost ==
                  IF s \in DOMAIN last_known_costs
                  THEN last_known_costs[s]
                  ELSE get_current_cumulative_cost(live)
              e == enable_api(MONITORED_API_SERVICES[s], enable_ok)
          IN  /\ s \in DOMAIN last_known_costs =>
                    live = CHOOSE r \in Readings(s) : TRUE
              /\ dry_run => enable_ok
              /\ baselines' = set_baseline(baselines, s, cumulative_cost)
              /\ alerts_sent' = notifications_reset_flags(alerts_sent, s)
              /\ last_sent' = notifications_reset_cooldown(last_sent, s)
              /\ action_history' = record_action(action_history,
                    [action |-> "reset_service", service_key |-> s])
    /\ resets' = resets + 1
    /\ alert_count' = [alert_count EXCEPT ![s] = [l \in Levels |-> 0]]
    /\ mono' = [mono EXCEPT ![s] = TRUE]
    /\ UNCHANGED <<last_known_costs, current_month, pending_rollover, dry_run,
                   month, now, cycle, harness>>

\* The environment: time passes, a new UTC month begins.
Tick ==
    /\ pc = "idle"
    /\ now < ALERT_COOLDOWN_SECONDS + MaxTime
    /\ now' = now + 1
    /\ UNCHANGED <<ledger, pending_rollover, last_sent, dry_run, month, cycle,
                   observers, harness>>

MonthAdvances ==
    /\ pc = "idle"
    /\ month < MaxMonth
    /\ month' = month + 1
    /\ UNCHANGED <<ledger, pending_rollover, last_sent, dry_run, now, cycle,
                   observers, harness>>

\* After BudgetMonitorService.__init__: the ledger is that of the running
\* month (a fresh one, or one loaded with nothing recorded yet), and the
\* constructor's check_month_rollover has left _pending_rollover.
InitEnv(budgets, critical) ==
    /\ service_budgets = budgets
    /\ critical_threshold_pct = critical
    /\ api_status = AllEnabled
    /\ shared_metric = FreshMetric
    /\ peer_state = EmptyState
    /\ baselines = EmptyDict
    /\ last_known_costs = EmptyDict
    /\ alerts_sent = EmptyDict
    /\ action_history = <<>>
    /\ month = 1
    /\ current_month = month
    /\ pending_rollover \in BOOLEAN
    /\ last_sent = EmptyDict
    /\ dry_run \in BOOLEAN
    /\ now = ALERT_COOLDOWN_SECONDS
    /\ pc = "idle"
    /\ idx = 0
    /\ budget = FreshBudget
    /\ disabled_apis = <<>>
    /\ warnings_sent = <<>>
    /\ calls = <<>>
    /\ summary = <<>>
    /\ metric_details = <<>>
    /\ data_warnings = <<>>
    /\ alert_count = NoAlerts
    /\ mono = AllMono
    /\ resets = 0
    /\ rollover_ret = <<>>
    /\ before = <<>>
    /\ nops = 0
    /\ reply = <<>>
    /\ lock = 0
    /\ threads = [t \in Threads |-> Returned]
    /\ doc = (IF current_month = NoMonth THEN <<>> ELSE <<LedgerDoc>>)
    /\ serial = LedgerDoc
    /\ channels = <<>>
    /\ call = <<>>

InitWith(budgets) == InitEnv(budgets, CRITICAL_THRESHOLD_PCT)

Init == InitWith(DefaultBudgets)

Next ==
    \/ RunCheckBegin
    \/ CheckService
    \/ RunCheckEnd
    \/ RunCheckReturn
    \/ \E s \in Services : ResetService(s)
    \/ Tick
    \/ MonthAdvances

Spec == Init /\ [][Next]_vars

\* ------------------------------------------------------------- SpecLedger
\* One StateManager on its own; its public methods are called in any order
\* with any arguments.  "before" holds the ledger as check_month_rollover
\* found it and "rollover_ret" what it returned, until the next call.
LedgerCosts == {80, 100}
LedgerEntries == {[action |-> "reset_service", service_key |-> ServiceOrder[1]],
                  [action |-> "monthly_reset_reenable", service_key |-> "all"]}

monitor == <<pending_rollover, last_sent, dry_run, now, cycle, observers>>

LedgerCall ==
    /\ nops < MaxOps
    /\ nops' = nops + 1
    /\ rollover_ret' = <<>>
    /\ before' = <<>>
    /\ UNCHANGED <<current_month, month, monitor, reply, locking, probes>>

LedgerSetBaseline ==
    /\ LedgerCall
    /\ \E s \in Services, cost \in LedgerCosts :
          baselines' = set_baseline(baselines, s, cost)
    /\ UNCHANGED <<last_known_costs, alerts_sent, action_history>>

LedgerSetLastKnownCost ==
    /\ LedgerCall
    /\ \E s \in Services, cost \in LedgerCosts :
          last_known_costs' = set_last_known_cost(last_known_costs, s, cost)
    /\ UNCHANGED <<baselines, alerts_sent, action_history>>

LedgerSetAlertSent ==
    /\ LedgerCall
    /\ \E s \in Services, level \in Levels :
          alerts_sent' = set_alert_sent(alerts_sent, s, level)
    /\ UNCHANGED <<baselines, last_known_costs, action_history>>

LedgerResetAlerts ==
    /\ LedgerCall
    /\ \E s \in Services : alerts_sent' = reset_alerts(alerts_sent, s)
    /\ UNCHANGED <<baselines, last_known_costs, action_history>>

LedgerRecordAction ==
    /\ LedgerCall
    /\ \E entry \in LedgerEntries :
          action_history' = record_action(action_history, entry)
    /\ UNCHANGED <<baselines, last_known_costs, alerts_sent>>

LedgerCheckMonthRollover ==
    /\ nops < MaxOps
    /\ nops' = nops + 1
    /\ \E result \in BOOLEAN :
          /\ check_month_rollover(result)
          /\ rollover_ret' = <<result>>
    /\ before' = <<[baselines |-> baselines, alerts_sent |-> alerts_sent,
                    last_known_costs |-> last_known_costs,
                    action_history |-> action_history,
                    current_month |-> current_month]>>
    /\ UNCHANGED <<action_history, month, monitor, reply, locking, probes>>

LedgerMonthAdvances ==
    /\ month < MaxMonth
    /\ month' = month + 1
    /\ rollover_ret' = <<>>
    /\ before' = <<>>
    /\ UNCHANGED <<ledger, nops, monitor, reply, locking, probes>>

\* A new StateManager: over an empty backend no month is stored yet, over
\* a document written this month the month is the running one.
InitLedger ==
    /\ service_budgets = DefaultBudgets
    /\ critical_threshold_pct = CRITICAL_THRESHOLD_PCT
    /\ api_status = AllEnabled
    /\ shared_metric = FreshMetric
    /\ peer_state = EmptyState
    /\ baselines = EmptyDict
    /\ last_known_costs = EmptyDict
    /\ alerts_sent = EmptyDict
    /\ action_history = <<>>
    /\ month = 1
    /\ current_month \in {NoMonth, month}
    /\ pending_rollover = FALSE
    /\ last_sent = EmptyDict
    /\ dry_run = FALSE
    /\ now = ALERT_COOLDOWN_SECONDS
    /\ pc = "idle"
    /\ idx = 0
    /\ budget = FreshBudget
    /\ disabled_apis = <<>>
    /\ warnings_sent = <<>>
    /\ calls = <<>>
    /\ summary = <<>>
    /\ metric_details = <<>>
    /\ data_warnings = <<>>
    /\ alert_count = NoAlerts
    /\ mono = AllMono
    /\ resets = 0
    /\ rollover_ret = <<>>
    /\ before = <<>>
    /\ nops = 0
    /\ reply = <<>>
    /\ lock = 0
    /\ threads = [t \in Threads |-> Returned]
    /\ doc = (IF current_month = NoMonth THEN <<>> ELSE <<LedgerDoc>>)
    /\ serial = LedgerDoc
    /\ channels = <<>>
    /\ call = <<>>

NextLedger ==
    \/ LedgerSetBaseline
    \/ LedgerSetLastKnownCost
    \/ LedgerSetAlertSent
    \/ LedgerResetAlerts
    \/ LedgerRecordAction
    \/ LedgerCheckMonthRollover
    \/ LedgerMonthAdvances

SpecLedger == InitLedger /\ [][NextLedger]_vars

\* -------------------------------------------------------------- SpecReset
\* The HTTP handlers next to the check cycle: POST /reset/{service_key},
\* GET /status/{service_key}, POST /enable_service/{api_name}.  A request is
\* handled while no cycle is in flight, "reply" holds its response and the
\* calls it made until the response is delivered.
RequestKeys == Services \cup {"cloudsql"}

\* Variant: an unknown key is given the API of the last monitored service.
api_name_of_Defaulting(key) ==
    IF key \in DOMAIN MONITORED_API_SERVICES
    THEN MONITORED_API_SERVICES[key]
    ELSE MONITORED_API_SERVICES[ServiceOrder[Len(ServiceOrder)]]

\* MONITORED_API_SERVICES.get(service_key): "" stands for None.
api_name_of(key) ==
    IF key \in DOMAIN MONITORED_API_SERVICES
    THEN MONITORED_API_SERVICES[key]
    ELSE ""

\* Variants: the cached cost is ignored; success is reported whatever the
\* enable call answered.
reset_service_AlwaysLive(s, live, enable_ok) ==
    LET cumulative_cost == IF live = <<>> THEN 0
                           ELSE get_current_cumulative_cost(live)
        e == enable_api(api_name_of(s), enable_ok)
    IN  [baseline |-> cumulative_cost,
         calls |-> <<[op |-> "live_cost", svc |-> s, items |-> live], e>>,
         result |-> [status |-> IF e.ok THEN "success" ELSE "partial",
                     service_key |-> s, api_name |-> api_name_of(s),
                     api_enabled |-> e.ok, baseline_saved |-> cumulative_cost,
                     alerts_reset |-> TRUE]]

reset_service_ReportsSuccess(s, live, enable_ok) ==
    LET cached == s \in DOMAIN last_known_costs
        cumulative_cost ==
            IF cached THEN last_known_costs[s]
            ELSE IF live = <<>> THEN 0
            ELSE get_current_cumulative_cost(live)
        e == enable_api(api_name_of(s), enable_ok)
    IN  [baseline |-> cumulative_cost,
         calls |-> (IF cached THEN <<>>
                    ELSE <<[op |-> "live_cost", svc |-> s, items |-> live]>>)
                   \o <<e>>,
         result |-> [status |-> "success",
                     service_key |-> s, api_name |-> api_name_of(s),
                     api_enabled |-> TRUE, baseline_saved |-> cumulative_cost,
                     alerts_reset |-> TRUE]]

\* BudgetMonitorService.reset_service for a monitored service: the baseline
\* it saves, the calls it makes outside the ledger, in order, and the dict
\* it returns.  "live" are the line-item expenses a live computation would
\* find (<<>>: the service has no line items, the computation yields None).
reset_service(s, live, enable_ok) ==
    LET cached == s \in DOMAIN last_known_costs
        cumulative_cost ==
            IF cached THEN last_known_costs[s]
            ELSE IF live = <<>> THEN 0
            ELSE get_current_cumulative_cost(live)
        e == enable_api(api_name_of(s), enable_ok)
    IN  [baseline |-> cumulative_cost,
         calls |-> (IF cached THEN <<>>
                    ELSE <<[op |-> "live_cost", svc |-> s, items |-> live]>>)
                   \o <<e>>,
         result |-> [status |-> IF e.ok THEN "success" ELSE "partial",
                     service_key |-> s, api_name |-> api_name_of(s),
                     api_enabled |-> e.ok, baseline_saved |-> cumulative_cost,
                     alerts_reset |-> TRUE]]

\* POST /reset/{service_key}.
ResetRequest(key) ==
    /\ pc = "idle"
    /\ reply = <<>>
    /\ IF api_name_of(key) = ""
       THEN /\ reply' = <<[request |-> "reset", key |-> key, http |-> 400,
                           content |-> [status |-> "error"], calls |-> <<>>]>>
            /\ UNCHANGED <<ledger, last_sent, resets, alert_count, mono>>
       ELSE /\ resets < MaxResets
            /\ \E live \in Readings(key), enable_ok \in BOOLEAN :
                  LET r == reset_service(key, live, enable_ok)
                  IN  /\ key \in DOMAIN last_known_costs =>
                            live = CHOOSE x \in Readings(key) : TRUE
                      /\ dry_run => enable_ok
                      /\ baselines' = set_baseline(baselines, key, r.baseline)
                      /\ alerts_sent' = notifications_reset_flags(alerts_sent, key)
                      /\ last_sent' = notifications_reset_cooldown(last_sent, key)
                      /\ action_history' = record_action(action_history,
                            [action |-> "reset_service", service_key |-> key])
                      /\ reply' = <<[request |-> "reset", key |-> key,
                                     http |-> IF r.result.api_enabled THEN 200 ELSE 500,
                                     content |-> r.result, calls |-> r.calls]>>
            /\ resets' = resets + 1
            /\ alert_count' = [alert_count EXCEPT ![key] = [l \in Levels |-> 0]]
            /\ mono' = [mono EXCEPT ![key] = TRUE]
            /\ UNCHANGED <<last_known_costs, current_month>>
    /\ UNCHANGED <<pending_rollover, dry_run, month, now, cycle,
                   rollover_ret, before, nops, locking, probes>>

\* GET /status/{service_key}: one get_api_status call for a monitored
\* service ("state" is what it answers, "" for None).
StatusRequest(key) ==
    /\ pc = "idle"
    /\ reply = <<>>
    /\ IF api_name_of(key) = ""
       THEN reply' = <<[request |-> "status", key |-> key, http |-> 400,
                        content |-> [error |-> "unknown"], calls |-> <<>>]>>
       ELSE \E state \in {"ENABLED", "DISABLED", ""} :
               reply' = <<[request |-> "status", key |-> key, http |-> 200,
                           content |-> [service_key |-> key,
                                        api_name |-> api_name_of(key),
                                        api_state |-> state],
                           calls |-> <<[op |-> "status", api |-> api_name_of(key)]>>]>>
    /\ UNCHANGED <<ledger, pending_rollover, last_sent, dry_run, month, now,
                   cycle, observers, rollover_ret, before, nops, locking, probes>>

\* POST /enable_service/{api_name}: one enable_api call.
EnableRequest(key) ==
    /\ pc = "idle"
    /\ reply = <<>>
    /\ \E enable_ok \in BOOLEAN :
          LET e == enable_api(MONITORED_API_SERVICES[key], enable_ok)
          IN  /\ dry_run => enable_ok
              /\ reply' = <<[request |-> "enable", key |-> key,
                             http |-> IF e.ok THEN 200 ELSE 500,
                             content |-> [status |-> IF e.ok THEN "success" ELSE "failed"],
                             calls |-> <<e>>]>>
    /\ UNCHANGED <<ledger, pending_rollover, last_sent, dry_run, month, now,
                   cycle, observers, rollover_ret, before, nops, locking, probes>>

\* The response is delivered.
Respond ==
    /\ reply # <<>>
    /\ reply' = <<>>
    /\ UNCHANGED <<ledger, pending_rollover, last_sent, dry_run, month, now,
                   cycle, observers, rollover_ret, before, nops, locking, probes>>

InitReset ==
    /\ Init
    /\ ~pending_rollover

NextReset ==
    \/ (reply = <<>> /\ RunCheckBegin)
    \/ CheckService
    \/ RunCheckEnd
    \/ RunCheckReturn
    \/ (reply = <<>> /\ MonthAdvances)
    \/ \E key \in RequestKeys : ResetRequest(key)
    \/ \E key \in RequestKeys : StatusRequest(key)
    \/ \E key \in Services : EnableRequest(key)
    \/ Respond

SpecReset == InitReset /\ [][NextReset]_vars

\* -------------------------------------------------------------- SpecItems
\* The check cycle with the line items of each service evaluated one by
\* one: what the price provider and the usage source answer for each is an
\* input.  Alerts and disable calls succeed.
PriceOutcomes == {[kind |-> "raise", value |-> 0],
                  [kind |-> "none", value |-> 0],
                  [kind |-> "ok", value |-> 50]}

\* What Cloud Monitoring answers to the usage query of a line item: the
\* list_time_series request fails, a later page of the result fails while
\* it is read, or the points add up to a number of units.
UpstreamAnswers(s) ==
    {[kind |-> "query_error", value |-> 0],
     [kind |-> "page_error", value |-> 0],
     [kind |-> "ok", value |-> IF s = ActiveService THEN 2 ELSE 0]}

\* Variant: a failed request is raised to the caller.
get_total_units_Raising(upstream) ==
    IF upstream.kind = "ok"
    THEN [kind |-> "ok", value |-> upstream.value]
    ELSE [kind |-> "raise", value |-> 0]

\* get_total_units: _query_time_series catches the error of the request
\* and returns None, which counts as 0 units; an error while the pages are
\* read is not caught.
get_total_units(upstream) ==
    CASE upstream.kind = "query_error" -> [kind |-> "ok", value |-> 0]
      [] upstream.kind = "page_error" -> [kind |-> "raise", value |-> 0]
      [] OTHER -> [kind |-> "ok", value |-> upstream.value]

\* The (non-catch-all) line items SERVICE_METRICS lists for a service.
LineItems(s) == IF s = ActiveService THEN MaxItems ELSE 1

\* Variant: a failed usage query is not reported.
compute_metric_expense_SilentUsage(price_out, usage_out) ==
    LET pricing_failed == price_out.kind = "raise"
        price_per_unit == IF price_out.kind = "ok" THEN <<price_out.value>> ELSE <<>>
        monitoring_failed == usage_out.kind = "raise"
        unit_count == IF monitoring_failed THEN 0 ELSE usage_out.value
        price_missing == pricing_failed \/ price_per_unit = <<>>
    IN  [price_per_unit |-> price_per_unit,
         unit_count |-> unit_count,
         expense |-> IF price_per_unit # <<>>
                     THEN price_per_unit[1] * unit_count ELSE 0,
         warning |-> IF price_missing THEN "Pricing unavailable" ELSE ""]

\* _compute_metric_expense: what it leaves in the metric (price_per_unit is
\* <<>> for None) and the warning it returns ("" for None).
compute_metric_expense(price_out, usage_out) ==
    LET pricing_failed == price_out.kind = "raise"
        price_per_unit == IF price_out.kind = "ok" THEN <<price_out.value>> ELSE <<>>
        monitoring_failed == usage_out.kind = "raise"
        unit_count == IF monitoring_failed THEN 0 ELSE usage_out.value
        price_missing == pricing_failed \/ price_per_unit = <<>>
    IN  [price_per_unit |-> price_per_unit,
         unit_count |-> unit_count,
         expense |-> IF price_per_unit # <<>>
                     THEN price_per_unit[1] * unit_count ELSE 0,
         warning |-> IF price_missing /\ monitoring_failed
                     THEN "Both pricing and monitoring unavailable"
                     ELSE IF price_missing THEN "Pricing unavailable"
                     ELSE IF monitoring_failed THEN "Monitoring data unavailable"
                     ELSE ""]

\* The record of one line item: what was answered for it and what
\* _compute_metric_expense made of it.
MetricRecord(s, i, out) ==
    LET usage == get_total_units(out[2])
        r == compute_metric_expense(out[1], usage)
    IN  [svc |-> s, item |-> i, price |-> out[1], upstream |-> out[2],
         usage |-> usage,
         price_per_unit |-> r.price_per_unit, unit_count |-> r.unit_count,
         expense |-> r.expense, warning |-> r.warning]

RECURSIVE MetricRecordsFrom(_, _, _)
MetricRecordsFrom(s, outs, i) ==
    IF i > Len(outs) THEN <<>>
    ELSE <<MetricRecord(s, i, outs[i])>> \o MetricRecordsFrom(s, outs, i + 1)

RECURSIVE MetricRecordsUntilPricingError(_, _, _)
MetricRecordsUntilPricingError(s, outs, i) ==
    IF i > Len(outs) \/ outs[i][1].kind = "raise" THEN <<>>
    ELSE <<MetricRecord(s, i, outs[i])>>
         \o MetricRecordsUntilPricingError(s, outs, i + 1)

\* Variant: the loop over the line items ends at the first pricing error.
MetricRecords_StopAtPricingError(s, outs) ==
    MetricRecordsUntilPricingError(s, outs, 1)

\* run_check, the loop over the line items of one service, in list order.
MetricRecords(s, outs) == MetricRecordsFrom(s, outs, 1)

RECURSIVE ExpensesOf(_)
ExpensesOf(records) ==
    IF records = <<>> THEN <<>>
    ELSE <<Head(records).expense>> \o ExpensesOf(Tail(records))

RECURSIVE WarningsOf(_)
WarningsOf(records) ==
    IF records = <<>> THEN <<>>
    ELSE (IF Head(records).warning # ""
          THEN <<[svc |-> Head(records).svc, item |-> Head(records).item,
                  warning |-> Head(records).warning]>>
          ELSE <<>>) \o WarningsOf(Tail(records))

\* The answers for the line items of a service, one pair (price lookup,
\* usage query) per item.
ItemOutcomes(s) ==
    IF LineItems(s) = 1
    THEN {<<o>> : o \in PriceOutcomes \X UpstreamAnswers(s)}
    ELSE {<<o1>> \o rest : o1 \in PriceOutcomes \X UpstreamAnswers(s),
            rest \in [1..(LineItems(s) - 1) -> PriceOutcomes \X UpstreamAnswers(s)]}

\* run_check, the loop body for the next service, line item by line item.
CheckServiceItems ==
    /\ pc = "eval"
    /\ idx <= Len(ServiceOrder)
    /\ \E outs \in ItemOutcomes(ServiceOrder[idx]) :
          LET records == MetricRecords(ServiceOrder[idx], outs)
          IN  /\ EvaluateService(ExpensesOf(records), TRUE, TRUE, TRUE)
              /\ metric_details' = metric_details \o records
              /\ data_warnings' = data_warnings \o WarningsOf(records)
    /\ UNCHANGED harness

InitItems ==
    /\ Init
    /\ ~pending_rollover
    /\ ~dry_run

NextItems ==
    \/ RunCheckBegin
    \/ CheckServiceItems
    \/ RunCheckEnd
    \/ RunCheckReturn

SpecItems == InitItems /\ [][NextItems]_vars

\* --------------------------------------------------------------- SpecLock
\* Two threads of one process call the methods of one StateManager.  A
\* call is made (check_month_rollover reads the clock here), waits for the
\* lock, changes _state, serialises it in two parts, uploads it and
\* releases the lock; a read and a check_month_rollover that finds the
\* stored month release the lock without a save.
LockCalls ==
    {[name |-> "set_baseline", key |-> s, cost |-> 80, level |-> "", month |-> NoMonth] :
        s \in Services}
    \cup {[name |-> "set_last_known_cost", key |-> s, cost |-> 100, level |-> "",
            month |-> NoMonth] : s \in Services}
    \cup {[name |-> "set_alert_sent", key |-> ActiveService, cost |-> 0, level |-> l,
            month |-> NoMonth] : l \in Levels}
    \cup {[name |-> n, key |-> ActiveService, cost |-> 0, level |-> "",
            month |-> NoMonth] : n \in {"reset_alerts", "record_action", "get_baseline"}}
    \cup {[name |-> "check_month_rollover", key |-> "", cost |-> 0, level |-> "",
            month |-> month]}

\* What a call makes of _state.
ApplyCall(op, st) ==
    CASE op.name = "set_baseline" ->
           [st EXCEPT !.baselines = set_baseline(@, op.key, op.cost)]
      [] op.name = "set_last_known_cost" ->
           [st EXCEPT !.last_known_costs = set_last_known_cost(@, op.key, op.cost)]
      [] op.name = "set_alert_sent" ->
           [st EXCEPT !.alerts_sent = set_alert_sent(@, op.key, op.level)]
      [] op.name = "reset_alerts" ->
           [st EXCEPT !.alerts_sent = reset_alerts(@, op.key)]
      [] op.name = "record_action" ->
           [st EXCEPT !.action_history =
               record_action(@, [action |-> "reset_service", service_key |-> op.key])]
      [] op.name = "check_month_rollover" ->
           IF st.current_month = op.month THEN st
           ELSE [st EXCEPT !.baselines = EmptyDict, !.alerts_sent = EmptyDict,
                           !.last_known_costs = EmptyDict,
                           !.current_month = op.month]
      [] OTHER -> st

\* Whether the call ends with _save().
Saves(op, st) ==
    /\ op.name # "get_baseline"
    /\ op.name = "check_month_rollover" => st.current_month # op.month

\* Variant: the lock is granted while another thread holds it.
CanAcquire_Always(t) == TRUE

\* threading.Lock: granted only while no thread holds it.
CanAcquire(t) == lock = 0

InSection(t) == threads[t].pc \in {"locked", "written", "saving"}

\* A thread enters a StateManager method.
LockCall(t) ==
    /\ threads[t].pc = "idle"
    /\ nops < MaxCalls
    /\ nops' = nops + 1
    /\ \E op \in LockCalls :
          threads' = [threads EXCEPT ![t] = [pc |-> "waiting", op |-> op, buf |-> <<>>]]
    /\ UNCHANGED <<ledger, month, monitor, rollover_ret, before, reply,
                   lock, doc, serial, probes>>

\* with self._lock: the lock is taken.
LockAcquire(t) ==
    /\ threads[t].pc = "waiting"
    /\ CanAcquire(t)
    /\ lock' = t
    /\ threads' = [threads EXCEPT ![t].pc = "locked"]
    /\ serial' = ApplyCall(threads[t].op, serial)
    /\ UNCHANGED <<ledger, month, monitor, rollover_ret, before, nops, reply, doc, probes>>

\* The body of the method up to _save(); a method that does not save
\* returns and the lock is released.
LockWrite(t) ==
    /\ threads[t].pc = "locked"
    /\ LET st == ApplyCall(threads[t].op, LedgerDoc)
       IN  /\ baselines' = st.baselines
           /\ last_known_costs' = st.last_known_costs
           /\ alerts_sent' = st.alerts_sent
           /\ action_history' = st.action_history
           /\ current_month' = st.current_month
    /\ IF Saves(threads[t].op, LedgerDoc)
       THEN /\ threads' = [threads EXCEPT ![t].pc = "written"]
            /\ UNCHANGED lock
       ELSE /\ threads' = [threads EXCEPT ![t] = Returned]
            /\ lock' = 0
    /\ UNCHANGED <<month, monitor, rollover_ret, before, nops, reply, doc, serial, probes>>

\* _save, json.dumps: the first keys of _state are serialised.
LockSaveBegin(t) ==
    /\ threads[t].pc = "written"
    /\ threads' = [threads EXCEPT ![t].pc = "saving",
                                  ![t].buf = <<[baselines |-> baselines,
                                               last_known_costs |-> last_known_costs]>>]
    /\ UNCHANGED <<ledger, month, monitor, rollover_ret, before, nops, reply,
                   lock, doc, serial, probes>>

\* _save, the rest: the other keys are serialised, the document is
\* written (a failed write is logged and leaves the old document) and the
\* lock is released.
LockSaveEnd(t) ==
    /\ threads[t].pc = "saving"
    /\ \E write_ok \in BOOLEAN :
          doc' = IF write_ok
                 THEN <<[baselines |-> threads[t].buf[1].baselines,
                         last_known_costs |-> threads[t].buf[1].last_known_costs,
                         alerts_sent |-> alerts_sent,
                         action_history |-> action_history,
                         current_month |-> current_month]>>
                 ELSE doc
    /\ threads' = [threads EXCEPT ![t] = Returned]
    /\ lock' = 0
    /\ UNCHANGED <<ledger, month, monitor, rollover_ret, before, nops, reply, serial, probes>>

InitLock == InitLedger

NextLock ==
    \/ \E t \in Threads : LockCall(t)
    \/ \E t \in Threads : LockAcquire(t)
    \/ \E t \in Threads : LockWrite(t)
    \/ \E t \in Threads : LockSaveBegin(t)
    \/ \E t \in Threads : LockSaveEnd(t)
    \/ LedgerMonthAdvances

SpecLock == InitLock /\ [][NextLock]_vars

\* ------------------------------------------------------------- SpecBudget
\* The check cycle of a deployment whose environment gives the service in
\* use no budget (0) or a negative one.
NoBudgets == {0, -100}

InitBudget ==
    \E b \in NoBudgets :
        /\ InitWith([DefaultBudgets EXCEPT ![ActiveService] = b])
        /\ ~pending_rollover

NextBudget ==
    \/ RunCheckBegin
    \/ CheckService
    \/ RunCheckEnd
    \/ RunCheckReturn

SpecBudget == InitBudget /\ [][NextBudget]_vars

\* --------------------------------------------------------------- SpecApis
\* One disable_api or enable_api call of the wrapper, attempt by attempt:
\* each request succeeds, fails with an HTTP status or raises another
\* error.
api_max_retries == 3

ApiAnswers == {"ok", "400", "403", "404", "500", "error"}

\* What one attempt leads to: the call returns True ("true") or False
\* ("false"), or goes on to the next attempt ("retry").
api_attempt(op, answer) ==
    CASE answer = "ok" -> "true"
      [] op = "disable" /\ answer \in {"403", "400"} -> "false"
      [] op = "disable" /\ answer = "404" -> "true"
      [] op = "enable" /\ answer = "403" -> "false"
      [] OTHER -> "retry"

\* The call is made; in dry-run it returns True without a request.
ApiCall ==
    /\ call = <<>>
    /\ \E op \in {"disable", "enable"}, answers \in [1..api_max_retries -> ApiAnswers] :
          call' = <<[op |-> op, answers |-> answers, attempts |-> 0,
                     result |-> IF dry_run THEN "true" ELSE "retry"]>>
    /\ UNCHANGED <<ledger, month, monitor, rollover_ret, before, nops, reply,
                   locking, channels, service_budgets,
                   critical_threshold_pct, api_status, shared_metric,
                   peer_state>>

\* The next attempt of the loop.
ApiAttempt ==
    /\ call # <<>>
    /\ call[1].result = "retry"
    /\ call[1].attempts < api_max_retries
    /\ call' = <<[call[1] EXCEPT
                    !.attempts = @ + 1,
                    !.result =
                        LET r == api_attempt(call[1].op, call[1].answers[call[1].attempts + 1])
                        IN  IF r = "retry" /\ call[1].attempts + 1 = api_max_retries
                            THEN "false" ELSE r]>>
    /\ UNCHANGED <<ledger, month, monitor, rollover_ret, before, nops, reply,
                   locking, channels, service_budgets,
                   critical_threshold_pct, api_status, shared_metric,
                   peer_state>>

\* The call has returned.
ApiReturn ==
    /\ call # <<>>
    /\ call[1].result # "retry"
    /\ call' = <<>>
    /\ UNCHANGED <<ledger, month, monitor, rollover_ret, before, nops, reply,
                   locking, channels, service_budgets,
                   critical_threshold_pct, api_status, shared_metric,
                   peer_state>>

InitApis ==
    /\ Init
    /\ ~pending_rollover

NextApis ==
    \/ ApiCall
    \/ ApiAttempt
    \/ ApiReturn

SpecApis == InitApis /\ [][NextApis]_vars

\* ------------------------------------------------------------- SpecPrices
\* Price lookups on their own: a FallbackPriceProvider asked for the price
\* of a SKU, and a PriceCatalogService asked for the token price of a
\* Vertex AI model.  A lookup is asked, answered and returned.

\* What a provider answers: a price, None, or an exception.
ProviderAnswers(price) ==
    {[kind |-> "ok", value |-> price], [kind |-> "none", value |-> 0],
     [kind |-> "raise", value |-> 0]}

\* Variant: an exception of the primary provider is not caught.
fallback_get_price_per_unit_NoCatch(primary, fallback) ==
    IF primary.kind = "ok"
    THEN [answer |-> primary, consulted |-> <<"primary">>]
    ELSE IF primary.kind = "raise"
    THEN [answer |-> primary, consulted |-> <<"primary">>]
    ELSE [answer |-> IF fallback.kind = "raise"
                     THEN [kind |-> "none", value |-> 0] ELSE fallback,
          consulted |-> <<"primary", "fallback">>]

\* FallbackPriceProvider.get_price_per_unit: what the caller gets and the
\* providers that were consulted, in order.
fallback_get_price_per_unit(primary, fallback) ==
    IF primary.kind = "ok"
    THEN [answer |-> primary, consulted |-> <<"primary">>]
    ELSE [answer |-> IF fallback.kind = "raise"
                     THEN [kind |-> "none", value |-> 0] ELSE fallback,
          consulted |-> <<"primary", "fallback">>]

\* Model ids as Cloud Monitoring reports them, cut into their parts.
ModelIds ==
    {<<"gemini">>, <<"gemini", "@", "001">>,
     <<"publishers/google", "/models/", "gemini", "@", "001">>,
     <<"publishers/google", "/models/", "gemini">>,
     <<"future-model">>}

TokenTypes == {"input", "output"}

\* The part of q after its last "/models/" (q itself when there is none).
AfterModels(q) ==
    IF \E i \in DOMAIN q : q[i] = "/models/"
    THEN LET i == CHOOSE k \in DOMAIN q :
                     q[k] = "/models/" /\ \A j \in DOMAIN q : q[j] = "/models/" => j <= k
         IN  SubSeq(q, i + 1, Len(q))
    ELSE q

\* The part of q before its first "@" (q itself when there is none).
BeforeAt(q) ==
    IF \E i \in DOMAIN q : q[i] = "@"
    THEN LET i == CHOOSE k \in DOMAIN q :
                     q[k] = "@" /\ \A j \in DOMAIN q : q[j] = "@" => k <= j
         IN  SubSeq(q, 1, i - 1)
    ELSE q

\* Variant: only the publisher prefix is stripped.
normalize_model_id_KeepsVersion(model_id) == AfterModels(model_id)

\* _normalize_model_id.
normalize_model_id(model_id) == BeforeAt(AfterModels(model_id))

\* Catalogs: the token types priced for the model key "gemini" and for the
\* model key "gemini@001", the token types with a service-wide default,
\* and whether a global fallback price is configured.  Every price of a
\* catalog is different, so a price tells where it came from.
CatalogKeys == {<<"gemini">>, <<"gemini", "@", "001">>}
PriceOfKey(key, token_type) ==
    (IF key = <<"gemini">> THEN 10 ELSE 20) + (IF token_type = "input" THEN 1 ELSE 2)
PriceOfDefault(token_type) == 30 + (IF token_type = "input" THEN 1 ELSE 2)
ConfiguredFallbackPrice == 40
\* default_fallback_price when the catalog has none (0.0001 in the source).
BuiltinFallbackPrice == 50

Catalogs ==
    [vertex_ai : [CatalogKeys -> SUBSET TokenTypes],
     vertex_ai_defaults : SUBSET TokenTypes,
     has_fallback : BOOLEAN]

\* _extract_model_token_price: <<price>>, or <<>> for None.
extract_model_token_price(catalog, model_key, token_type) ==
    IF model_key \in CatalogKeys /\ token_type \in catalog.vertex_ai[model_key]
    THEN <<PriceOfKey(model_key, token_type)>>
    ELSE <<>>

\* default_fallback_price.
default_fallback_price(catalog) ==
    IF catalog.has_fallback THEN ConfiguredFallbackPrice ELSE BuiltinFallbackPrice

\* get_vertex_ai_model_price: <<price>>, or <<>> for None.
get_vertex_ai_model_price(catalog, model_id, token_type) ==
    LET exact == extract_model_token_price(catalog, model_id, token_type)
        normalised == normalize_model_id(model_id)
        normal == IF normalised # model_id
                  THEN extract_model_token_price(catalog, normalised, token_type)
                  ELSE <<>>
    IN  IF exact # <<>> THEN exact
        ELSE IF normal # <<>> THEN normal
        ELSE IF token_type \in catalog.vertex_ai_defaults
        THEN <<PriceOfDefault(token_type)>>
        ELSE <<default_fallback_price(catalog)>>

PriceFrame ==
    UNCHANGED <<ledger, month, monitor, rollover_ret, before, nops, reply,
                locking, channels, service_budgets,
                   critical_threshold_pct, api_status, shared_metric,
                   peer_state>>

AskFallbackProvider ==
    /\ call = <<>>
    /\ \E primary \in ProviderAnswers(60), fallback \in ProviderAnswers(70) :
          call' = <<[fn |-> "get_price_per_unit", primary |-> primary,
                     fallback |-> fallback, returned |-> <<>>]>>
    /\ PriceFrame

AnswerFallbackProvider ==
    /\ call # <<>>
    /\ call[1].fn = "get_price_per_unit"
    /\ call[1].returned = <<>>
    /\ call' = <<[call[1] EXCEPT !.returned =
            <<fallback_get_price_per_unit(call[1].primary, call[1].fallback)>>]>>
    /\ PriceFrame

AskModelPrice ==
    /\ call = <<>>
    /\ \E catalog \in Catalogs, model_id \in ModelIds, token_type \in TokenTypes :
          call' = <<[fn |-> "get_vertex_ai_model_price", catalog |-> catalog,
                     model_id |-> model_id, token_type |-> token_type,
                     returned |-> <<>>]>>
    /\ PriceFrame

AnswerModelPrice ==
    /\ call # <<>>
    /\ call[1].fn = "get_vertex_ai_model_price"
    /\ call[1].returned = <<>>
    /\ call' = <<[call[1] EXCEPT !.returned =
            <<get_vertex_ai_model_price(call[1].catalog, call[1].model_id,
                                        call[1].token_type)>>]>>
    /\ PriceFrame

PriceReturn ==
    /\ call # <<>>
    /\ call[1].returned # <<>>
    /\ call' = <<>>
    /\ PriceFrame

InitPrices ==
    /\ Init
    /\ ~pending_rollover
    /\ ~dry_run

NextPrices ==
    \/ AskFallbackProvider
    \/ AnswerFallbackProvider
    \/ AskModelPrice
    \/ AnswerModelPrice
    \/ PriceReturn

SpecPrices == InitPrices /\ [][NextPrices]_vars

\* ----------------------------------------------------------- SpecCatchAll
\* The catch-all line item on its own: the grouped usage query is asked,
\* _compute_catch_all_expense prices what it answered, and the result is
\* returned.

\* Most groups in one answer of the grouped usage query.
MaxGroups == 2

\* dict.get(key, default) on a label that is <<value>> or <<>> when absent.
label_get(label, default) == IF label = <<>> THEN default ELSE label[1]

\* One group of the grouped usage query: its labels, its units, and what
\* the price provider answers when asked for the token price of the group.
Groups ==
    [model_user_id : {<<>>, <<"gemini">>, <<"future-model">>},
     type : {<<>>, <<"output">>},
     units : {0, 2},
     price : ProviderAnswers(3)]

GroupLists == UNION {[1..n -> Groups] : n \in 0..MaxGroups}

\* What the grouped usage query answers: its groups, or an exception.
GroupedAnswers ==
    {[kind |-> "raise", groups |-> <<>>]} \cup
    {[kind |-> "ok", groups |-> g] : g \in GroupLists}

\* Variant: a group without a price has a warning but no detail record.
catch_all_group_DropsUnpriced(acc, group) ==
    LET model_id == label_get(group.model_user_id, "unknown")
        token_type == label_get(group.type, "input")
        units == group.units
        expense == group.price.value * units
    IN  IF group.price.kind = "ok"
        THEN [total |-> acc.total + expense,
              unit_count |-> acc.unit_count + units,
              warnings |-> acc.warnings,
              details |-> Append(acc.details,
                            [model_id |-> model_id, token_type |-> token_type,
                             unit_count |-> units,
                             price_per_unit |-> group.price.value,
                             expense |-> expense,
                             pricing_source |-> "model_catalog",
                             is_catch_all |-> TRUE])]
        ELSE [acc EXCEPT !.unit_count = @ + units,
                         !.warnings = Append(@, [what |-> "no_price",
                                                 model_id |-> model_id,
                                                 token_type |-> token_type])]

\* The body of the loop over the groups: the result so far, one group more.
catch_all_group(acc, group) ==
    LET model_id == label_get(group.model_user_id, "unknown")
        token_type == label_get(group.type, "input")
        units == group.units
        resolved == group.price.kind = "ok"
        price == IF resolved THEN group.price.value ELSE 0
        expense == price * units
    IN  [total |-> acc.total + expense,
         unit_count |-> acc.unit_count + units,
         warnings |-> IF resolved THEN acc.warnings
                      ELSE Append(acc.warnings,
                                  [what |-> "no_price", model_id |-> model_id,
                                   token_type |-> token_type]),
         details |-> Append(acc.details,
                            [model_id |-> model_id, token_type |-> token_type,
                             unit_count |-> units, price_per_unit |-> price,
                             expense |-> expense,
                             pricing_source |-> IF resolved THEN "model_catalog"
                                                ELSE "none",
                             is_catch_all |-> TRUE])]

RECURSIVE catch_all_loop(_, _)
catch_all_loop(acc, groups) ==
    IF groups = <<>> THEN acc
    ELSE catch_all_loop(catch_all_group(acc, Head(groups)), Tail(groups))

\* _compute_catch_all_expense: the cost, the warnings and the detail
\* records, and the unit count and expense left on the metric.
compute_catch_all_expense(grouped) ==
    IF grouped.kind = "raise"
    THEN [total |-> 0, unit_count |-> 0,
          warnings |-> <<[what |-> "query_failed", model_id |-> "",
                          token_type |-> ""]>>,
          details |-> <<>>]
    ELSE catch_all_loop([total |-> 0, unit_count |-> 0, warnings |-> <<>>,
                         details |-> <<>>], grouped.groups)

AskCatchAll ==
    /\ call = <<>>
    /\ \E grouped \in GroupedAnswers :
          call' = <<[fn |-> "compute_catch_all_expense", grouped |-> grouped,
                     returned |-> <<>>]>>
    /\ PriceFrame

AnswerCatchAll ==
    /\ call # <<>>
    /\ call[1].fn = "compute_catch_all_expense"
    /\ call[1].returned = <<>>
    /\ call' = <<[call[1] EXCEPT !.returned =
                      <<compute_catch_all_expense(call[1].grouped)>>]>>
    /\ PriceFrame

InitCatchAll ==
    /\ Init
    /\ ~pending_rollover
    /\ ~dry_run

NextCatchAll ==
    \/ AskCatchAll
    \/ AnswerCatchAll
    \/ PriceReturn

SpecCatchAll == InitCatchAll /\ [][NextCatchAll]_vars

\* ------------------------------------------------------------ SpecHistory
\* One StateManager whose record_action is called again and again.  The
\* entry of the n-th call carries n as its timestamp, and "nops" counts
\* the calls.
HistoryAction(n) == IF n % 2 = 1 THEN "disable_service" ELSE "reset_service"

HistoryEntry(n) ==
    [action |-> HistoryAction(n), service_key |-> ServiceOrder[1 + (n % 3)],
     timestamp |-> n]

HistoryRecordAction ==
    /\ nops < MaxAppends
    /\ nops' = nops + 1
    /\ action_history' = record_action(action_history, HistoryEntry(nops + 1))
    /\ UNCHANGED <<baselines, last_known_costs, alerts_sent, current_month,
                   month, monitor, rollover_ret, before, reply, locking, probes>>

InitHistory == Init

NextHistory == HistoryRecordAction

SpecHistory == InitHistory /\ [][NextHistory]_vars

\* ------------------------------------------------------------ SpecPersist
\* One StateManager over one backend, one thread: its methods are called,
\* each ending with _save() (which may fail and is then only logged), and
\* at any time a new StateManager is built over the same backend.  "doc"
\* holds the JSON document of the backend; "call" holds the last call and
\* whether every save since the StateManager was built succeeded.

\* JSON values: numbers, strings, arrays, and objects as their members.
JsonNumber(v) == [t |-> "number", v |-> v]
JsonString(v) == [t |-> "string", v |-> v]

\* A dict of costs, a list of levels, a dict of such lists, a history
\* entry and a list of such entries, as JSON.
JsonCosts(d) ==
    [t |-> "object", members |-> {<<k, JsonNumber(d[k])>> : k \in DOMAIN d}]
JsonLevels(levels) ==
    [t |-> "array", items |-> [i \in DOMAIN levels |-> JsonString(levels[i])]]
JsonAlerts(d) ==
    [t |-> "object", members |-> {<<k, JsonLevels(d[k])>> : k \in DOMAIN d}]
JsonEntry(entry) ==
    [t |-> "object", members |-> {<<k, JsonString(entry[k])>> : k \in DOMAIN entry}]
JsonHistory(history) ==
    [t |-> "array", items |-> [i \in DOMAIN history |-> JsonEntry(history[i])]]

\* The keys of a JSON object and the value of one of them.
JsonKeys(j) == {m[1] : m \in j.members}
JsonMember(j, k) == (CHOOSE m \in j.members : m[1] = k)[2]

\* The same values read back from JSON.
FromJsonCosts(j) == [k \in JsonKeys(j) |-> JsonMember(j, k).v]
FromJsonLevels(j) == [i \in DOMAIN j.items |-> j.items[i].v]
FromJsonAlerts(j) == [k \in JsonKeys(j) |-> FromJsonLevels(JsonMember(j, k))]
FromJsonEntry(j) == [k \in JsonKeys(j) |-> JsonMember(j, k).v]
FromJsonHistory(j) == [i \in DOMAIN j.items |-> FromJsonEntry(j.items[i])]

\* Variant: the action history is not written.
json_dumps_WithoutHistory(st) ==
    << <<"baselines", JsonCosts(st.baselines)>>,
       <<"last_known_costs", JsonCosts(st.last_known_costs)>>,
       <<"alerts_sent", JsonAlerts(st.alerts_sent)>>,
       <<"current_month", JsonString(st.current_month)>> >>

\* json.dumps(self._state): the keys of _state with their values, in
\* order.  A key that _state does not hold yet is written with the value
\* its getter reads for it.
json_dumps(st) ==
    << <<"baselines", JsonCosts(st.baselines)>>,
       <<"last_known_costs", JsonCosts(st.last_known_costs)>>,
       <<"alerts_sent", JsonAlerts(st.alerts_sent)>>,
       <<"action_history", JsonHistory(st.action_history)>>,
       <<"current_month", JsonString(st.current_month)>> >>

JsonHas(text, key) == \E i \in DOMAIN text : text[i][1] = key
JsonAt(text, key) == text[CHOOSE i \in DOMAIN text : text[i][1] = key][2]

\* _load followed by the getters: json.loads of the document, {} when
\* there is none, and for each key its value or the default of its getter.
load(document) ==
    LET text == IF document = <<>> THEN <<>> ELSE document[1]
    IN  [baselines |->
             IF JsonHas(text, "baselines")
             THEN FromJsonCosts(JsonAt(text, "baselines"))
             ELSE EmptyDict,
         last_known_costs |->
             IF JsonHas(text, "last_known_costs")
             THEN FromJsonCosts(JsonAt(text, "last_known_costs"))
             ELSE EmptyDict,
         alerts_sent |->
             IF JsonHas(text, "alerts_sent")
             THEN FromJsonAlerts(JsonAt(text, "alerts_sent"))
             ELSE EmptyDict,
         action_history |->
             IF JsonHas(text, "action_history")
             THEN FromJsonHistory(JsonAt(text, "action_history"))
             ELSE <<>>,
         current_month |->
             IF JsonHas(text, "current_month")
             THEN JsonAt(text, "current_month").v
             ELSE NoMonth]

\* Whether every save since the StateManager was built succeeded.
SavesSucceeded == call = <<>> \/ call[1].saved

PersistFrame ==
    UNCHANGED <<month, monitor, rollover_ret, before, reply, lock, threads,
                serial, channels, service_budgets,
                critical_threshold_pct, api_status, shared_metric,
                   peer_state>>

\* How a write of the document ends: it succeeds; it is refused before
\* anything is written (the upload fails, or the file cannot be opened);
\* or, with the local file, it fails after open(path, "w") has emptied the
\* file.  Every failure is caught and logged.
WriteOutcomes == {"ok", "refused", "partial"}

\* _save_to_gcs, _save_to_file: the document after the write.  A file cut
\* short holds no complete JSON value and is read as {} by _load.
save_document(document, st, outcome) ==
    CASE outcome = "ok" -> <<json_dumps(st)>>
      [] outcome = "refused" -> document
      [] OTHER -> << <<>> >>

\* The calls made: those of SpecLock, and the alert calls for a second
\* service.
PersistCalls ==
    LockCalls
    \cup {[name |-> "set_alert_sent", key |-> ServiceOrder[1], cost |-> 0,
            level |-> l, month |-> NoMonth] : l \in Levels}
    \cup {[name |-> "reset_alerts", key |-> ServiceOrder[1], cost |-> 0,
            level |-> "", month |-> NoMonth]}

\* A method of the StateManager is called and returns.
PersistCall ==
    /\ nops < MaxCalls
    /\ nops' = nops + 1
    /\ \E op \in PersistCalls, outcome \in WriteOutcomes :
          LET st == ApplyCall(op, LedgerDoc)
              saves == Saves(op, LedgerDoc)
          IN  /\ baselines' = st.baselines
              /\ last_known_costs' = st.last_known_costs
              /\ alerts_sent' = st.alerts_sent
              /\ action_history' = st.action_history
              /\ current_month' = st.current_month
              /\ doc' = IF saves THEN save_document(doc, st, outcome) ELSE doc
              /\ call' = <<[fn |-> op.name, op |-> op,
                            write |-> IF saves THEN outcome ELSE "none",
                            saved |-> SavesSucceeded /\ (saves => outcome = "ok")]>>
    /\ PersistFrame

\* StateManager.__init__ over the same backend: _state is what _load reads.
PersistRestart ==
    /\ call # <<>>
    /\ call[1].fn # "__init__"
    /\ LET st == load(doc)
       IN  /\ baselines' = st.baselines
           /\ last_known_costs' = st.last_known_costs
           /\ alerts_sent' = st.alerts_sent
           /\ action_history' = st.action_history
           /\ current_month' = st.current_month
    /\ call' = <<[fn |-> "__init__", op |-> NoCall, write |-> "none",
                  saved |-> TRUE]>>
    /\ UNCHANGED <<nops, doc>>
    /\ PersistFrame

PersistMonthAdvances ==
    /\ month < MaxMonth
    /\ month' = month + 1
    /\ UNCHANGED <<ledger, nops, monitor, rollover_ret, before, reply,
                   locking, probes>>

InitPersist ==
    /\ InitLedger
    /\ current_month = NoMonth

NextPersist ==
    \/ PersistCall
    \/ PersistRestart
    \/ PersistMonthAdvances

SpecPersist == InitPersist /\ [][NextPersist]_vars

\* ---------------------------------------------------------- SpecThreshold
\* The check cycle of deployments whose environment sets
\* CRITICAL_THRESHOLD_PCT: below, at, or above 100.
CriticalPcts == {75, 100, 150}

InitThreshold ==
    \E critical \in CriticalPcts :
        /\ InitEnv(DefaultBudgets, critical)
        /\ ~pending_rollover

NextThreshold ==
    \/ RunCheckBegin
    \/ CheckService
    \/ RunCheckEnd
    \/ RunCheckReturn
    \/ Tick

SpecThreshold == InitThreshold /\ [][NextThreshold]_vars

\* --------------------------------------------------------------- SpecRace
\* POST /check and POST /reset/{service} answered by two threads of one
\* process (the routes are plain functions, run by the thread pool; the
\* monitor is one object; only the StateManager methods take a lock).
\* Each action is one step of run_check or of reset_service for the
\* service in use, whose month-to-date cost stays the same meanwhile.
CycleThread == 1
ResetThread == 2
RaceReading == CHOOSE items \in ItemReadings : SumSeq(items) > DefaultBudgets[ActiveService]

At(t, pc_) == threads[t].pc = pc_
Goto(t, pc_, buf) == threads' = [threads EXCEPT ![t] = [pc |-> pc_, op |-> NoCall, buf |-> buf]]

RaceFrame ==
    UNCHANGED <<current_month, pending_rollover, dry_run, month, now, cycle,
                observers, rollover_ret, before, reply, lock, doc, serial,
                channels, call, service_budgets, critical_threshold_pct,
                shared_metric, peer_state>>

\* run_check: the line items are added up and the raw cost is stored.
RaceCycleCost ==
    /\ At(CycleThread, "idle")
    /\ nops < MaxCalls
    /\ nops' = nops + 1
    /\ LET raw == SumSeq(RaceReading)
       IN  /\ last_known_costs' = set_last_known_cost(last_known_costs, ActiveService, raw)
           /\ Goto(CycleThread, "cost_saved", <<raw>>)
    /\ UNCHANGED <<baselines, alerts_sent, action_history, last_sent, api_status>>
    /\ RaceFrame

\* run_check: the baseline is read and subtracted.
RaceCycleBaseline ==
    /\ At(CycleThread, "cost_saved")
    /\ Goto(CycleThread, "evaluated",
            <<EffectiveExpense(threads[CycleThread].buf[1], get_baseline(ActiveService))>>)
    /\ UNCHANGED <<ledger, last_sent, api_status, nops>>
    /\ RaceFrame

\* run_check: the thresholds; an exceeded service has its API disabled and
\* the alert sent.
RaceCycleThreshold ==
    /\ At(CycleThread, "evaluated")
    /\ \E disable_ok \in BOOLEAN, email_ok \in BOOLEAN :
          LET step == ThresholdStep(ActiveService, threads[CycleThread].buf[1],
                                    disable_ok, email_ok, FALSE)
          IN  /\ api_status' =
                    IF step.disabled_apis # <<>>
                    THEN [api_status EXCEPT ![ActiveService] = "DISABLED"]
                    ELSE api_status
              /\ last_sent' = LastSentAfter(last_sent, SelectSeq(step.calls, IsAlert))
    /\ Goto(CycleThread, "done", <<>>)
    /\ UNCHANGED <<ledger, nops>>
    /\ RaceFrame

\* run_budget_check returns.
RaceCycleReturn ==
    /\ At(CycleThread, "done")
    /\ Goto(CycleThread, "idle", <<>>)
    /\ UNCHANGED <<ledger, last_sent, api_status, nops>>
    /\ RaceFrame

\* reset_service: the cost to save, the last known one or a live one.
RaceResetCost ==
    /\ At(ResetThread, "idle")
    /\ Goto(ResetThread, "cost_read",
            <<IF ActiveService \in DOMAIN last_known_costs
              THEN last_known_costs[ActiveService]
              ELSE get_current_cumulative_cost(RaceReading)>>)
    /\ UNCHANGED <<ledger, last_sent, api_status, nops>>
    /\ RaceFrame

\* reset_service: the baseline is saved and the alert tracking reset.
RaceResetBaseline ==
    /\ At(ResetThread, "cost_read")
    /\ baselines' = set_baseline(baselines, ActiveService, threads[ResetThread].buf[1])
    /\ alerts_sent' = notifications_reset_flags(alerts_sent, ActiveService)
    /\ last_sent' = notifications_reset_cooldown(last_sent, ActiveService)
    /\ Goto(ResetThread, "baseline_set", <<>>)
    /\ UNCHANGED <<last_known_costs, action_history, current_month, api_status, nops>>
    /\ RaceFrame

\* reset_service: the API is enabled, the action recorded and the dict
\* returned.
RaceResetEnable ==
    /\ At(ResetThread, "baseline_set")
    /\ \E enable_ok \in BOOLEAN :
          LET e == enable_api(MONITORED_API_SERVICES[ActiveService], enable_ok)
          IN  /\ api_status' =
                    IF e.issued /\ e.ok
                    THEN [api_status EXCEPT ![ActiveService] = "ENABLED"]
                    ELSE api_status
              /\ Goto(ResetThread, "done",
                      <<[status |-> IF e.ok THEN "success" ELSE "partial",
                         api_enabled |-> e.ok]>>)
    /\ action_history' = record_action(action_history,
            [action |-> "reset_service", service_key |-> ActiveService])
    /\ UNCHANGED <<baselines, last_known_costs, alerts_sent, current_month,
                   last_sent, nops>>
    /\ RaceFrame

InitRace ==
    /\ Init
    /\ ~pending_rollover

NextRace ==
    \/ RaceCycleCost
    \/ RaceCycleBaseline
    \/ RaceCycleThreshold
    \/ RaceCycleReturn
    \/ RaceResetCost
    \/ RaceResetBaseline
    \/ RaceResetEnable

SpecRace == InitRace /\ [][NextRace]_vars

\* ------------------------------------------------------------ SpecOverlap
\* Two POST /check requests answered by two threads of one process.  Both
\* cycles work on the same MonitoredMetric object of SERVICE_METRICS; each
\* action is one statement of _compute_metric_expense or of the loop of
\* run_check for one line item.  "buf" holds what the cycle itself read
\* and the expense of its own ServiceBudget.
OverlapPrices == {<<>>, <<1>>, <<2>>}
OverlapUnits == {0, 10, 20}

OverlapFrame ==
    UNCHANGED <<ledger, month, monitor, rollover_ret, before, nops, reply,
                lock, doc, serial, channels, call, service_budgets,
                critical_threshold_pct, api_status, peer_state>>

\* metric.price_per_unit = price_provider.get_price_per_unit(...).
OverlapPrice(t) ==
    /\ At(t, "idle")
    /\ \E price \in OverlapPrices :
          /\ shared_metric' = [shared_metric EXCEPT !.price_per_unit = price]
          /\ Goto(t, "priced", <<[price |-> price, units |-> 0, current_expense |-> 0]>>)
    /\ OverlapFrame

\* metric.unit_count = monitoring.get_total_units(...).
OverlapUnitCount(t) ==
    /\ At(t, "priced")
    /\ \E units \in OverlapUnits :
          /\ shared_metric' = [shared_metric EXCEPT !.unit_count = units]
          /\ Goto(t, "counted", <<[threads[t].buf[1] EXCEPT !.units = units]>>)
    /\ OverlapFrame

\* metric.expense = metric.price_per_unit * metric.unit_count, 0.0 when the
\* price is None.
OverlapExpense(t) ==
    /\ At(t, "counted")
    /\ shared_metric' = [shared_metric EXCEPT !.expense =
            IF shared_metric.price_per_unit # <<>>
            THEN shared_metric.price_per_unit[1] * shared_metric.unit_count
            ELSE 0]
    /\ Goto(t, "computed", threads[t].buf)
    /\ OverlapFrame

\* svc_budget.current_expense += metric.expense.
OverlapAdd(t) ==
    /\ At(t, "computed")
    /\ Goto(t, "added", <<[threads[t].buf[1] EXCEPT
                              !.current_expense = @ + shared_metric.expense]>>)
    /\ UNCHANGED shared_metric
    /\ OverlapFrame

InitOverlap ==
    /\ Init
    /\ ~pending_rollover
    /\ ~dry_run

NextOverlap ==
    \/ \E t \in Threads : OverlapPrice(t)
    \/ \E t \in Threads : OverlapUnitCount(t)
    \/ \E t \in Threads : OverlapExpense(t)
    \/ \E t \in Threads : OverlapAdd(t)

SpecOverlap == InitOverlap /\ [][NextOverlap]_vars

\* ---------------------------------------------------------- SpecInstances
\* Two instances of the service over one persisted document.  The ledger
\* variables are the _state of the first instance and "peer_state" the
\* _state of the second.  Each instance loads the document once, when its
\* StateManager is built; every save writes the whole _state of the
\* instance that saves.
InstanceCosts == {80, 100, 180}

InstancesFrame ==
    UNCHANGED <<month, monitor, rollover_ret, before, reply, lock, threads,
                serial, channels, call, service_budgets,
                critical_threshold_pct, api_status, shared_metric>>

RolloverCall ==
    [name |-> "check_month_rollover", key |-> "", cost |-> 0, level |-> "",
     month |-> month]

\* BudgetMonitorService.__init__: StateManager() loads the document, then
\* check_month_rollover stores the month when the document held another.
started(document) == ApplyCall(RolloverCall, load(document))

\* _state after a check cycle: check_month_rollover, then
\* set_last_known_cost for every service, the raw cost on the active one.
cycled(st, raw) ==
    LET s0 == ApplyCall(RolloverCall, st)
    IN  [s0 EXCEPT !.last_known_costs =
            set_last_known_cost(
              set_last_known_cost(
                set_last_known_cost(@, ServiceOrder[1],
                                    IF ServiceOrder[1] = ActiveService THEN raw ELSE 0),
                ServiceOrder[2],
                IF ServiceOrder[2] = ActiveService THEN raw ELSE 0),
              ServiceOrder[3],
              IF ServiceOrder[3] = ActiveService THEN raw ELSE 0)]

SetLedger(st) ==
    /\ baselines' = st.baselines
    /\ last_known_costs' = st.last_known_costs
    /\ alerts_sent' = st.alerts_sent
    /\ action_history' = st.action_history
    /\ current_month' = st.current_month

\* The first instance starts.
InstanceStart ==
    /\ current_month = NoMonth
    /\ LET st == started(doc)
       IN  /\ SetLedger(st)
           /\ doc' = IF Saves(RolloverCall, load(doc)) THEN <<json_dumps(st)>> ELSE doc
    /\ UNCHANGED <<nops, peer_state>>
    /\ InstancesFrame

\* The second instance starts.
PeerStart ==
    /\ peer_state.current_month = NoMonth
    /\ LET st == started(doc)
       IN  /\ peer_state' = st
           /\ doc' = IF Saves(RolloverCall, load(doc)) THEN <<json_dumps(st)>> ELSE doc
    /\ UNCHANGED <<ledger, nops>>
    /\ InstancesFrame

\* reset_service on the first instance: the baseline is the last known
\* cost, or the live cost when none is stored; the action is recorded.
InstanceReset(s) ==
    /\ current_month # NoMonth
    /\ nops < MaxCalls
    /\ nops' = nops + 1
    /\ \E live \in InstanceCosts :
          LET cost == IF DictGet(last_known_costs, s, 0) > 0
                      THEN last_known_costs[s] ELSE live
              st == [LedgerDoc EXCEPT
                        !.baselines = set_baseline(@, s, cost),
                        !.action_history =
                            record_action(@, [action |-> "reset_service",
                                              service_key |-> s])]
          IN  /\ SetLedger(st)
              /\ doc' = <<json_dumps(st)>>
    /\ UNCHANGED peer_state
    /\ InstancesFrame

\* A check cycle on the first instance.
InstanceCycle ==
    /\ current_month # NoMonth
    /\ nops < MaxCalls
    /\ nops' = nops + 1
    /\ \E raw \in InstanceCosts :
          LET st == cycled(LedgerDoc, raw)
          IN  /\ SetLedger(st)
              /\ doc' = <<json_dumps(st)>>
    /\ UNCHANGED peer_state
    /\ InstancesFrame

\* A check cycle on the second instance.
PeerCycle ==
    /\ peer_state.current_month # NoMonth
    /\ nops < MaxCalls
    /\ nops' = nops + 1
    /\ \E raw \in InstanceCosts :
          LET st == cycled(peer_state, raw)
          IN  /\ peer_state' = st
              /\ doc' = <<json_dumps(st)>>
    /\ UNCHANGED ledger
    /\ InstancesFrame

InitInstances == InitPersist

NextInstances ==
    \/ InstanceStart
    \/ PeerStart
    \/ \E s \in Services : InstanceReset(s)
    \/ InstanceCycle
    \/ PeerCycle

SpecInstances == InitInstances /\ [][NextInstances]_vars

\* ----------------------------------------------------------- SpecRollover
\* The service over the months, with the state of each API at the Service
\* Usage API: the process restarts (finding its ledger, or none), cycles
\* run, an admin enables an API, the month advances.  "call" holds what the
\* first part of the last cycle did, "calls" the calls of the cycle in
\* flight and "reply" those of the cycle before.
RolloverCosts == {0, 80, 100, 180}

ServiceOfApi(api) == CHOOSE s \in Services : MONITORED_API_SERVICES[s] = api

\* The state of the APIs after the enable and disable calls of "evs".
RECURSIVE ApiAfter(_, _)
ApiAfter(status, evs) ==
    IF evs = <<>> THEN status
    ELSE LET e == Head(evs)
             next == IF e.op \in {"enable", "disable"} /\ e.issued /\ e.ok
                     THEN [status EXCEPT ![ServiceOfApi(e.api)] =
                              IF e.op = "enable" THEN "ENABLED" ELSE "DISABLED"]
                     ELSE status
         IN  ApiAfter(next, Tail(evs))

RolloverFrame ==
    UNCHANGED <<dry_run, idx, budget, disabled_apis, summary,
                metric_details, data_warnings, alert_count, mono,
                rollover_ret, nops, locking, channels, service_budgets,
                critical_threshold_pct, shared_metric, peer_state>>

\* The process restarts: StateManager() loads the ledger, or {} when the
\* document is missing or unreadable; BudgetMonitorService.__init__ keeps
\* what check_month_rollover returns; _last_sent starts empty.
RolloverRestart ==
    /\ pc = "idle"
    /\ resets < MaxResets
    /\ resets' = resets + 1
    /\ \E lost \in BOOLEAN :
          LET found == IF lost THEN EmptyState ELSE LedgerDoc
              st == ApplyCall(RolloverCall, found)
          IN  /\ SetLedger(st)
              /\ pending_rollover' = (found.current_month # month)
              /\ before' = IF found.current_month # month THEN <<found>> ELSE before
    /\ last_sent' = EmptyDict
    /\ UNCHANGED <<month, now, pc, calls, warnings_sent, reply, call, api_status>>
    /\ RolloverFrame

\* run_check, first part: check_month_rollover, and _re_enable_all_services
\* when it or the constructor detected a rollover; "okset" are the APIs
\* whose enable call succeeds.
RolloverBeginWith(okset) ==
    /\ pc = "idle"
    /\ LET rollover == current_month # month
           reenable == rollover \/ pending_rollover
           evs == IF reenable THEN re_enable_all_services(okset) ELSE <<>>
           re_enabled == MapApi(SelectSeq(evs, IsOk))
           status == ApiAfter(api_status, evs)
       IN  /\ check_month_rollover(rollover)
           /\ (~reenable \/ dry_run) => okset = Services
           /\ pending_rollover' = IF reenable THEN FALSE ELSE pending_rollover
           /\ action_history' =
                 IF re_enabled # <<>>
                 THEN record_action(action_history,
                         [action |-> "monthly_reset_reenable",
                          service_key |-> "all"])
                 ELSE action_history
           /\ api_status' = status
           /\ calls' = evs
           /\ call' = <<[fn |-> "run_check", reenable |-> reenable,
                         stored |-> IF rollover THEN current_month
                                    ELSE IF pending_rollover
                                         THEN before[1].current_month
                                         ELSE current_month,
                         enabled |-> {s \in Services :
                                        /\ api_status[s] = "DISABLED"
                                        /\ status[s] = "ENABLED"}]>>
    /\ pc' = "eval"
    /\ warnings_sent' = <<>>
    /\ UNCHANGED <<last_sent, month, now, resets, before, reply>>
    /\ RolloverFrame

RolloverBegin == \E okset \in EnableOutcomes : RolloverBeginWith(okset)

\* run_check, the loop: the last known cost of every service is stored and
\* the thresholds of the service in use are decided on its expense.
RolloverEvaluate ==
    /\ pc = "eval"
    /\ \E raw \in RolloverCosts, disable_ok \in BOOLEAN,
          email_ok \in BOOLEAN, pubsub_ok \in BOOLEAN :
          LET st == cycled(LedgerDoc, raw)
              expense == EffectiveExpense(raw, get_baseline(ActiveService))
              step == ThresholdStep(ActiveService, expense, disable_ok,
                                    email_ok, pubsub_ok)
          IN  /\ last_known_costs' = st.last_known_costs
              /\ calls' = <<[op |-> "eval", svc |-> ActiveService,
                             raw |-> raw, expense |-> expense]>> \o step.calls
              /\ api_status' = ApiAfter(api_status, step.calls)
              /\ last_sent' = LastSentAfter(last_sent, SelectSeq(step.calls, IsAlert))
              /\ warnings_sent' = warnings_sent \o step.warnings_sent
    /\ pc' = "done"
    /\ UNCHANGED <<baselines, alerts_sent, action_history, current_month,
                   pending_rollover, month, now, resets, before, reply, call>>
    /\ RolloverFrame

\* run_budget_check returns the summary.
RolloverReturn ==
    /\ pc = "done"
    /\ pc' = "idle"
    /\ reply' = <<[path |-> "/check", calls |-> calls,
                    warnings_sent |-> warnings_sent]>>
    /\ calls' = <<>>
    /\ warnings_sent' = <<>>
    /\ UNCHANGED <<ledger, pending_rollover, last_sent, month, now, resets,
                   before, call, api_status>>
    /\ RolloverFrame

\* enable_service(api_name): an admin enables the API, without a reset.
RolloverEnable(s) ==
    /\ pc = "idle"
    /\ api_status[s] = "DISABLED"
    /\ \E enable_ok \in BOOLEAN :
          /\ dry_run => enable_ok
          /\ api_status' = ApiAfter(api_status,
                <<enable_api(MONITORED_API_SERVICES[s], enable_ok)>>)
    /\ UNCHANGED <<ledger, pending_rollover, last_sent, month, now, pc, calls,
                   warnings_sent, resets, before, reply, call>>
    /\ RolloverFrame

InitRollover ==
    /\ Init
    /\ ~pending_rollover

NextRollover ==
    \/ RolloverRestart
    \/ RolloverBegin
    \/ RolloverEvaluate
    \/ RolloverReturn
    \/ \E s \in Services : RolloverEnable(s)
    \/ Tick
    \/ MonthAdvances

SpecRollover == InitRollover /\ [][NextRollover]_vars

\* The re-enable-all step is due and every enable call of it succeeds.
ReEnableSucceeds ==
    /\ pending_rollover \/ current_month # month
    /\ RolloverBeginWith(Services)

\* Requests to /check keep arriving and are answered; enable calls that
\* are made again and again succeed in the end.
SpecRolloverFair ==
    /\ SpecRollover
    /\ WF_vars(RolloverBegin)
    /\ WF_vars(RolloverEvaluate)
    /\ WF_vars(RolloverReturn)
    /\ SF_vars(ReEnableSucceeds)

\* ------------------------------------------------------------- SpecNotify
\* The check cycle with the channels of an alert spelled out: each SMTP
\* attempt of _send_email and the Pub/Sub publish succeed or raise.
email_max_retries == 3

EmailOutcomes == [1..email_max_retries -> {"ok", "error"}]
PubsubOutcomes == {"ok", "error"}

\* _send_email: True at the first attempt that does not raise, False when
\* all attempts raised; "attempts" counts the attempts made.
send_email(outcomes) ==
    LET oks == {i \in 1..email_max_retries : outcomes[i] = "ok"}
        first == IF oks = {} THEN 0
                 ELSE CHOOSE i \in oks : \A j \in oks : i <= j
    IN  [sent |-> oks # {},
         attempts |-> IF oks = {} THEN email_max_retries ELSE first]

\* Variant: the publish is reported as done whatever happened.
publish_to_pubsub_ReportsSent(outcome) == TRUE

\* _publish_to_pubsub: True when the publish returned a message id, False
\* when it raised.
publish_to_pubsub(outcome) == outcome = "ok"

CheckServiceNotify ==
    /\ pc = "eval"
    /\ idx <= Len(ServiceOrder)
    /\ \E items \in Readings(ServiceOrder[idx]),
          mail \in EmailOutcomes, pub \in PubsubOutcomes :
          /\ EvaluateService(items, TRUE, send_email(mail).sent,
                             publish_to_pubsub(pub))
          /\ channels' =
                IF \E i \in DOMAIN calls' :
                      calls'[i].op = "alert" /\ ~calls'[i].suppressed
                THEN <<[mail |-> mail, attempts |-> send_email(mail).attempts,
                        pub |-> pub]>>
                ELSE <<>>
    /\ UNCHANGED <<metric_details, data_warnings, rollover_ret, before, nops,
                   reply, locking, call, service_budgets,
                   critical_threshold_pct, api_status, shared_metric,
                   peer_state>>

InitNotify ==
    /\ Init
    /\ ~pending_rollover

NextNotify ==
    \/ RunCheckBegin
    \/ CheckServiceNotify
    \/ RunCheckEnd
    \/ RunCheckReturn

SpecNotify == InitNotify /\ [][NextNotify]_vars

\* ------------------------------------------------------------- properties
\* "calls" holds the calls of the last step of the cycle in flight: after
\* the evaluation of a service, the evaluation record comes first.
Evaluated == calls # <<>> /\ calls[1].op = "eval"
CallsOf(op) == {i \in DOMAIN calls : calls[i].op = op}
AlertsOf(level) == {i \in CallsOf("alert") : calls[i].level = level}
OverBudget(e) ==
    monthly_budget(e.svc) > 0 /\ e.expense >= monthly_budget(e.svc)
Listed(q, x) == \E i \in DOMAIN q : q[i] = x

\* C1: a service whose raw cumulative cost equals the baseline its reset
\* stored is evaluated at expense 0: it is not exceeded, its API is not
\* disabled and no alert is attempted for it.
C1_NoFlappingAfterReset ==
    (Evaluated /\ calls[1].raw = calls[1].baseline) =>
        /\ calls[1].expense = 0
        /\ budget[calls[1].svc] = 0
        /\ CallsOf("disable") = {}
        /\ CallsOf("alert") = {}
        /\ ~Listed(disabled_apis, MONITORED_API_SERVICES[calls[1].svc])

C1_Witness ==
    /\ Evaluated
    /\ resets > 0
    /\ calls[1].baseline >= monthly_budget(calls[1].svc)
    /\ calls[1].raw = calls[1].baseline
    /\ calls[1].svc \in DOMAIN baselines
    /\ baselines[calls[1].svc] = calls[1].baseline

\* C2: the expense of a service in a cycle is max(0, raw - baseline), raw
\* being the sum of the line-item expenses of the cycle and baseline the
\* ledger's (0 when none); it is never negative, and the warning and
\* critical decisions of the cycle are taken on it.
C2_EffectiveExpense ==
    Evaluated =>
        LET e == calls[1]
            expected == Max(0, e.raw - e.baseline)
        IN  /\ e.raw = SumSeq(e.items)
            /\ e.expense = expected
            /\ e.expense >= 0
            /\ budget[e.svc] = expected
            /\ (AlertsOf("CRITICAL") # {}) <=> (expected >= monthly_budget(e.svc))
            /\ (AlertsOf("WARNING") # {}) <=>
                   /\ expected * 100 >= WARNING_THRESHOLD_PCT * monthly_budget(e.svc)
                   /\ expected < monthly_budget(e.svc)

C2_Witness ==
    /\ Evaluated
    /\ calls[1].baseline > calls[1].raw
    /\ calls[1].raw > 0
    /\ calls[1].expense = 0

\* C3: a disable call is made only for the API of the service under
\* evaluation and only when its expense has reached its positive budget;
\* the APIs a cycle lists as disabled belong to services over budget in
\* that cycle.
C3_DisableOnlyExceeded ==
    /\ \A i \in CallsOf("disable") :
          /\ Evaluated
          /\ calls[i].api = MONITORED_API_SERVICES[calls[1].svc]
          /\ OverBudget(calls[1])
    /\ \A j \in DOMAIN disabled_apis :
          \E s \in Services :
             /\ disabled_apis[j] = MONITORED_API_SERVICES[s]
             /\ monthly_budget(s) > 0
             /\ budget[s] >= monthly_budget(s)

C3_Witness ==
    /\ pc = "done"
    /\ disabled_apis = <<MONITORED_API_SERVICES[ActiveService]>>
    /\ budget[ActiveService] >= monthly_budget(ActiveService)
    /\ \A s \in Services \ {ActiveService} : budget[s] < monthly_budget(s)

\* C4: outside dry-run, when a service is exceeded the disable call for
\* its API is issued, and it comes before the critical alert, whatever
\* becomes of the alert.
C4_DisableBeforeCritical ==
    (~dry_run /\ Evaluated /\ OverBudget(calls[1])) =>
        /\ AlertsOf("CRITICAL") # {}
        /\ \A j \in AlertsOf("CRITICAL") :
              \E i \in CallsOf("disable") : i < j /\ calls[i].issued

C4_Witness ==
    /\ ~dry_run
    /\ \E i \in CallsOf("disable"), j \in AlertsOf("CRITICAL") :
          /\ i < j
          /\ calls[i].issued
          /\ ~calls[j].suppressed
          /\ ~calls[j].sent

\* C5: while the raw cost of a service has not fallen since the last reset
\* or rollover, at most one alert of each level has been delivered for it.
C5_OneAlertPerLevel ==
    \A s \in Services, l \in Levels : mono[s] => alert_count[s][l] <= 1

\* C6: an alert of a level already delivered for the service since its
\* last reset or rollover is not delivered again.
C6_SuppressedUntilReset ==
    [][(idx >= 1 /\ idx' = idx + 1) =>
          \A i \in DOMAIN calls' :
             (calls'[i].op = "alert"
                /\ alert_count[calls'[i].svc][calls'[i].level] > 0)
             => ~calls'[i].sent]_vars

\* C7: when a service is exceeded exactly one critical alert is attempted,
\* and its "disabled" flag is the outcome of the disable call of the step
\* (false when no call was made).
C7_CriticalCarriesOutcome ==
    (Evaluated /\ OverBudget(calls[1])) =>
        /\ Cardinality(AlertsOf("CRITICAL")) = 1
        /\ \A j \in AlertsOf("CRITICAL") :
              calls[j].disabled = (\E i \in CallsOf("disable") : calls[i].ok)

C7_Witness ==
    /\ ~dry_run
    /\ \E i \in CallsOf("disable"), j \in AlertsOf("CRITICAL") :
          ~calls[i].ok /\ ~calls[j].disabled

\* C8: a critical alert for a service that was not disabled is delivered
\* on no channel and is reported as not sent.
C8_NoCriticalUnlessDisabled ==
    \A j \in AlertsOf("CRITICAL") :
        ~calls[j].disabled =>
            ~calls[j].email /\ ~calls[j].pubsub /\ ~calls[j].sent

\* C9: in dry-run no disable call is issued, no API is listed as disabled,
\* the summary says dry_run, and the critical alert of an exceeded service
\* is attempted with disabled = false.
C9_DryRun ==
    dry_run =>
        /\ \A i \in CallsOf("disable") : ~calls[i].issued /\ ~calls[i].ok
        /\ disabled_apis = <<>>
        /\ summary # <<>> =>
              summary[1].dry_run /\ summary[1].disabled_apis = <<>>
        /\ (Evaluated /\ OverBudget(calls[1])) =>
              \E j \in AlertsOf("CRITICAL") : ~calls[j].disabled

C9_Witness ==
    /\ dry_run
    /\ summary # <<>>
    /\ summary[1].dry_run
    /\ summary[1].budget[ActiveService] >= monthly_budget(ActiveService)
    /\ summary[1].disabled_apis = <<>>

\* C10: check_month_rollover returns true exactly when the stored month
\* differs from the current one; then baselines, alerts_sent and
\* last_known_costs are empty, current_month is the current month and
\* action_history is as before; otherwise nothing changes.
C10_MonthRollover ==
    rollover_ret # <<>> =>
        LET was == before[1]
        IN  /\ rollover_ret[1] <=> (was.current_month # month)
            /\ action_history = was.action_history
            /\ rollover_ret[1] =>
                  /\ baselines = EmptyDict
                  /\ alerts_sent = EmptyDict
                  /\ last_known_costs = EmptyDict
                  /\ current_month = month
            /\ ~rollover_ret[1] =>
                  /\ baselines = was.baselines
                  /\ alerts_sent = was.alerts_sent
                  /\ last_known_costs = was.last_known_costs
                  /\ current_month = was.current_month

C10_Witness ==
    /\ rollover_ret = <<TRUE>>
    /\ before[1].current_month # NoMonth
    /\ before[1].baselines # EmptyDict
    /\ before[1].alerts_sent # EmptyDict
    /\ before[1].last_known_costs # EmptyDict
    /\ action_history # <<>>
    /\ baselines = EmptyDict

\* C11: a cycle that starts with a rollover detected (by the constructor or
\* by its own rollover check) calls enable once for every monitored API, in
\* order, before it evaluates any service, and leaves no detection pending;
\* a cycle that starts without one makes no enable call; no other step of
\* a cycle makes one.
C11_ReEnableOncePerRollover ==
    [][/\ (pc = "idle" /\ pc' = "eval") =>
            LET detected == pending_rollover \/ current_month # month
            IN  /\ detected =>
                      /\ Len(calls') = Len(ServiceOrder)
                      /\ \A i \in DOMAIN calls' :
                            /\ calls'[i].op = "enable"
                            /\ calls'[i].api = MONITORED_API_SERVICES[ServiceOrder[i]]
                      /\ ~pending_rollover'
                      /\ current_month' = month
                      /\ idx' = 1
                /\ ~detected => calls' = <<>>
       /\ (calls' # calls /\ \E i \in DOMAIN calls' : calls'[i].op = "enable")
             => pc = "idle"]_vars

C11_Witness ==
    /\ pc = "eval"
    /\ idx = 1
    /\ month > 1
    /\ current_month = month
    /\ Len(calls) = Len(ServiceOrder)
    /\ \A i \in DOMAIN calls : calls[i].op = "enable"
    /\ \E i \in DOMAIN calls : ~calls[i].ok
    /\ last_known_costs = EmptyDict
    /\ action_history # <<>>

\* C15: once a cycle has evaluated a service, last_known_costs holds for it
\* the raw cumulative cost of that evaluation, the sum of its line-item
\* expenses, whatever its baseline.
C15_LastKnownCostIsRaw ==
    Evaluated =>
        /\ calls[1].svc \in DOMAIN last_known_costs
        /\ last_known_costs[calls[1].svc] = SumSeq(calls[1].items)

C15_Witness ==
    /\ Evaluated
    /\ calls[1].baseline > 0
    /\ calls[1].expense > 0
    /\ calls[1].expense < calls[1].raw
    /\ last_known_costs[calls[1].svc] = calls[1].raw

Answering(request) == reply # <<>> /\ reply[1].request = request
KnownKey == reply[1].key \in DOMAIN MONITORED_API_SERVICES
ReplyCalls(op) == {i \in DOMAIN reply[1].calls : reply[1].calls[i].op = op}

\* C12: a reset of a monitored service has set its baseline, left no alert
\* record of it and appended its audit entry, one per reset, and has made
\* one enable call for its API; the status returned is "success" when that
\* call succeeded and "partial" when it failed, api_enabled is the outcome
\* of the call and alerts_reset is true.
C12_ResetOutcome ==
    /\ Cardinality({i \in DOMAIN action_history :
                      action_history[i].action = "reset_service"}) = resets
    /\ (Answering("reset") /\ KnownKey) =>
          LET key == reply[1].key
              c == reply[1].content
          IN  /\ key \in DOMAIN baselines
              /\ baselines[key] = c.baseline_saved
              /\ key \notin DOMAIN alerts_sent
              /\ \A l \in Levels : <<key, l>> \notin DOMAIN last_sent
              /\ action_history # <<>>
              /\ action_history[Len(action_history)] =
                    [action |-> "reset_service", service_key |-> key]
              /\ Cardinality(ReplyCalls("enable")) = 1
              /\ \A i \in ReplyCalls("enable") :
                    /\ reply[1].calls[i].api = MONITORED_API_SERVICES[key]
                    /\ c.api_enabled = reply[1].calls[i].ok
                    /\ c.status = IF reply[1].calls[i].ok THEN "success" ELSE "partial"
              /\ c.alerts_reset

C12_Witness ==
    /\ Answering("reset")
    /\ KnownKey
    /\ reply[1].content.status = "partial"
    /\ ~reply[1].content.api_enabled
    /\ reply[1].http = 500
    /\ baselines[reply[1].key] >= monthly_budget(reply[1].key)
    /\ action_history[Len(action_history)].service_key = reply[1].key

\* C13: the baseline a reset saves is the cached last known cost of the
\* service when there is one, and then no live cost computation is made;
\* otherwise it is the result of one live computation, 0 when that finds
\* no cost.
C13_BaselineChoice ==
    (Answering("reset") /\ KnownKey) =>
        LET key == reply[1].key
            saved == reply[1].content.baseline_saved
            lives == ReplyCalls("live_cost")
        IN  /\ baselines[key] = saved
            /\ key \in DOMAIN last_known_costs =>
                  /\ saved = last_known_costs[key]
                  /\ lives = {}
            /\ key \notin DOMAIN last_known_costs =>
                  /\ Cardinality(lives) = 1
                  /\ \A i \in lives :
                        /\ reply[1].calls[i].svc = key
                        /\ saved = SumSeq(reply[1].calls[i].items)

C13_Witness ==
    /\ Answering("reset")
    /\ reply[1].key = ActiveService
    /\ ActiveService \in DOMAIN last_known_costs
    /\ last_known_costs[ActiveService] > monthly_budget(ActiveService)
    /\ reply[1].content.baseline_saved = last_known_costs[ActiveService]
    /\ ReplyCalls("live_cost") = {}

\* The baseline of s differs between the two states of a step.
BaselineChanged(s) ==
    \/ (s \in DOMAIN baselines) # (s \in DOMAIN baselines')
    \/ /\ s \in DOMAIN baselines
       /\ s \in DOMAIN baselines'
       /\ baselines'[s] # baselines[s]

\* C14: the baseline of a service changes only in a step that is a reset
\* of that service, which sets it to the value the reset reports, or a
\* rollover, which empties the baselines; every other step (a cycle step
\* without rollover, an enable request, a status request) keeps it.
C14_BaselineFrame ==
    [][\A s \in Services :
          BaselineChanged(s) =>
             \/ /\ reply = <<>>
                /\ reply' # <<>>
                /\ reply'[1].request = "reset"
                /\ reply'[1].key = s
                /\ s \in DOMAIN baselines'
                /\ baselines'[s] = reply'[1].content.baseline_saved
             \/ /\ current_month' # current_month
                /\ pc = "idle"
                /\ pc' = "eval"
                /\ baselines' = EmptyDict]_vars

C14_Witness ==
    /\ pc = "done"
    /\ resets > 0
    /\ month > 1
    /\ ActiveService \in DOMAIN baselines
    /\ baselines[ActiveService] > 0
    /\ summary[1].budget[ActiveService] < last_known_costs[ActiveService]

\* C17: a reset or status request for a key that is no monitored service is
\* answered with HTTP 400 (status "error" for a reset), makes no call to
\* the API control and changes nothing in the ledger or the alert records.
C17_UnknownKey ==
    [][(reply' # reply /\ reply' # <<>>
          /\ reply'[1].request \in {"reset", "status"}
          /\ reply'[1].key \notin DOMAIN MONITORED_API_SERVICES) =>
           /\ reply'[1].http = 400
           /\ reply'[1].request = "reset" => reply'[1].content.status = "error"
           /\ reply'[1].calls = <<>>
           /\ UNCHANGED <<baselines, alerts_sent, action_history,
                          last_known_costs, current_month, last_sent>>]_vars

C17_Witness ==
    /\ Answering("reset")
    /\ ~KnownKey
    /\ reply[1].http = 400
    /\ baselines # EmptyDict
    /\ action_history # <<>>

\* What a line item costs given what was answered for it: price x units
\* when a price was resolved, with 0 units when the usage query failed.
PriceResolved(d) == d.price.kind = "ok"
UsageFailed(d) == d.usage.kind = "raise"
ExpectedExpense(d) ==
    IF PriceResolved(d)
    THEN d.price.value * (IF UsageFailed(d) THEN 0 ELSE d.usage.value)
    ELSE 0

RECURSIVE ServiceTotal(_, _)
ServiceTotal(q, s) ==
    IF q = <<>> THEN 0
    ELSE (IF Head(q).svc = s THEN ExpectedExpense(Head(q)) ELSE 0)
         + ServiceTotal(Tail(q), s)

\* C19: whatever the price lookups of the line items answer (a price, no
\* price, an exception), every line item of every service evaluated so far
\* in the cycle has its record, the raw cost of each such service is the
\* sum over its line items, and the cycle ends with a summary that carries
\* the records of all line items of all services.
C19_PricingFailureDoesNotStopCycle ==
    /\ pc \in {"eval", "done"} =>
          \A k \in 1..(idx - 1) :
              /\ \A i \in 1..LineItems(ServiceOrder[k]) :
                    \E j \in DOMAIN metric_details :
                        /\ metric_details[j].svc = ServiceOrder[k]
                        /\ metric_details[j].item = i
              /\ last_known_costs[ServiceOrder[k]]
                    = ServiceTotal(metric_details, ServiceOrder[k])
    /\ pc = "done" =>
          /\ idx = Len(ServiceOrder) + 1
          /\ summary # <<>>
          /\ summary[1].metric_details = metric_details
          /\ summary[1].data_warnings = data_warnings

\* The price lookup of the first line item of the service in use raised and
\* that of a line item of the last service yielded no price; the second
\* line item was priced and the cycle has its summary.
C19_Witness ==
    /\ pc = "done"
    /\ summary # <<>>
    /\ \E j \in DOMAIN metric_details :
          /\ metric_details[j].svc = ActiveService
          /\ metric_details[j].item = 1
          /\ metric_details[j].price.kind = "raise"
    /\ \E j \in DOMAIN metric_details :
          /\ metric_details[j].svc = ActiveService
          /\ metric_details[j].item = 2
          /\ metric_details[j].expense > 0
    /\ \E j \in DOMAIN metric_details :
          /\ metric_details[j].svc = ServiceOrder[Len(ServiceOrder)]
          /\ metric_details[j].price.kind = "none"
    /\ last_known_costs[ActiveService] > 0

\* The warning a line item must produce ("" for none).
ExpectedWarning(d) ==
    IF ~PriceResolved(d) /\ UsageFailed(d)
    THEN "Both pricing and monitoring unavailable"
    ELSE IF ~PriceResolved(d) THEN "Pricing unavailable"
    ELSE IF UsageFailed(d) THEN "Monitoring data unavailable"
    ELSE ""

WarningsFor(d) ==
    {j \in DOMAIN data_warnings :
        data_warnings[j].svc = d.svc /\ data_warnings[j].item = d.item}

\* C20: a line item's expense is price x units when a price was resolved
\* and 0 otherwise, its units are 0 when the usage query failed, and it
\* has exactly one warning, of the kind that names what was unavailable,
\* when the price is missing or the usage query failed, and none when both
\* succeeded.
C20_SingleItemExpenseAndWarning ==
    \A k \in DOMAIN metric_details :
        LET d == metric_details[k]
        IN  /\ d.expense = ExpectedExpense(d)
            /\ UsageFailed(d) => d.unit_count = 0
            /\ ~UsageFailed(d) => d.unit_count = d.usage.value
            /\ Cardinality(WarningsFor(d))
                  = (IF ExpectedWarning(d) = "" THEN 0 ELSE 1)
            /\ \A j \in WarningsFor(d) :
                  data_warnings[j].warning = ExpectedWarning(d)

\* One cycle met all four cases: both unavailable, only the price, only
\* the usage, and a priced line item with usage.
C20_Witness ==
    /\ \E j \in DOMAIN data_warnings :
          data_warnings[j].warning = "Both pricing and monitoring unavailable"
    /\ \E j \in DOMAIN data_warnings :
          data_warnings[j].warning = "Pricing unavailable"
    /\ \E j \in DOMAIN data_warnings :
          data_warnings[j].warning = "Monitoring data unavailable"
    /\ \E k \in DOMAIN metric_details :
          /\ metric_details[k].expense > 0
          /\ metric_details[k].warning = ""

C21_UsageFailureWarned ==
    \A k \in DOMAIN metric_details :
        LET d == metric_details[k]
        IN  d.upstream.kind # "ok" =>
              /\ d.unit_count = 0
              /\ \E j \in WarningsFor(d) :
                    data_warnings[j].warning \in
                        {"Monitoring data unavailable",
                         "Both pricing and monitoring unavailable"}

AllChannelsFailed ==
    /\ channels # <<>>
    /\ \A i \in DOMAIN channels[1].mail : channels[1].mail[i] = "error"
    /\ channels[1].pub = "error"

\* C22: when every email attempt and the Pub/Sub publish of an alert fail,
\* the evaluation of the service still ends normally: the alert is reported
\* as not sent (so a warning is not listed in warnings_sent and no send
\* time is kept), an exceeded service is disabled all the same, and the
\* cycle goes on to its summary.
C22_ChannelFailureOnlyNotSent ==
    /\ AllChannelsFailed =>
          /\ Evaluated
          /\ channels[1].attempts = email_max_retries
          /\ \A j \in CallsOf("alert") :
                /\ ~calls[j].sent
                /\ ~Listed(warnings_sent, calls[j].svc)
                /\ DictGet(last_sent, <<calls[j].svc, calls[j].level>>, 0) # now
          /\ (OverBudget(calls[1]) /\ ~dry_run) =>
                Listed(disabled_apis, MONITORED_API_SERVICES[calls[1].svc])
    /\ pc = "done" => summary # <<>> /\ idx = Len(ServiceOrder) + 1

\* All channels failed for the critical alert of an exceeded service: the
\* API is disabled, the alert is reported as not sent.
C22_Witness ==
    /\ AllChannelsFailed
    /\ ~dry_run
    /\ \E j \in AlertsOf("CRITICAL") : calls[j].disabled /\ ~calls[j].sent
    /\ disabled_apis # <<>>

\* C23: in the evaluation of a service a warning alert is attempted exactly
\* when its expense is at least the warning percentage of its budget and
\* below the budget; a warning and a critical alert are never both
\* attempted; at exactly the budget the service is exceeded (critical
\* alert, no warning).
C23_WarningExactlyBelowBudget ==
    Evaluated =>
        LET e == calls[1]
            b == monthly_budget(e.svc)
        IN  /\ (AlertsOf("WARNING") # {}) <=>
                  /\ b > 0
                  /\ e.expense * 100 >= WARNING_THRESHOLD_PCT * b
                  /\ e.expense < b
            /\ Cardinality(AlertsOf("WARNING")) <= 1
            /\ AlertsOf("WARNING") = {} \/ AlertsOf("CRITICAL") = {}
            /\ e.expense = b =>
                  AlertsOf("CRITICAL") # {} /\ AlertsOf("WARNING") = {}

\* A service evaluated at exactly its budget: critical alert, no warning.
C23_Witness ==
    /\ Evaluated
    /\ calls[1].expense = monthly_budget(calls[1].svc)
    /\ AlertsOf("CRITICAL") # {}
    /\ AlertsOf("WARNING") = {}

\* C24: a service whose monthly budget is zero or negative has a usage
\* percentage of 0 whatever its expense, and in no cycle is an alert
\* attempted for it, a disable call made for its API, or its API listed as
\* disabled.
C24_NoBudgetNeverActs ==
    \A s \in Services :
        monthly_budget(s) <= 0 =>
            /\ usage_pct(s, budget[s]) = 0
            /\ \A l \in Levels : alert_count[s][l] = 0
            /\ \A i \in CallsOf("alert") : calls[i].svc # s
            /\ \A i \in CallsOf("disable") : calls[i].api # MONITORED_API_SERVICES[s]
            /\ ~Listed(disabled_apis, MONITORED_API_SERVICES[s])
            /\ ~Listed(warnings_sent, s)
            /\ summary # <<>> =>
                  ~Listed(summary[1].disabled_apis, MONITORED_API_SERVICES[s])

\* A service without budget was evaluated at an expense far above the
\* default budget, and the cycle ended with nothing disabled.
C24_Witness ==
    /\ monthly_budget(ActiveService) <= 0
    /\ summary # <<>>
    /\ summary[1].budget[ActiveService] > DefaultBudgets[ActiveService]
    /\ summary[1].disabled_apis = <<>>

\* The answers the attempts made so far have met.
ApiSeen == {call[1].answers[i] : i \in 1..call[1].attempts}
ApiLast == call[1].answers[call[1].attempts]
ApiEndsAtOnce(op, answer) ==
    answer \in {"ok", "403"} \/ (op = "disable" /\ answer = "404")

\* C25: a disable_api or enable_api call outside dry-run makes at most
\* api_max_retries attempts; no attempt follows a success, a 403 or (on
\* disable) a 404; it returns True exactly at a success or at a 404 on
\* disable, False at a 403, and after any other error it goes on to the
\* next attempt until the attempts are used up, when it returns False.
C25_RetryRules ==
    (call # <<>> /\ ~dry_run /\ call[1].attempts > 0) =>
        LET c == call[1]
        IN  /\ c.attempts <= api_max_retries
            /\ \A i \in 1..(c.attempts - 1) : ~ApiEndsAtOnce(c.op, c.answers[i])
            /\ c.result = "true" <=>
                  (ApiLast = "ok" \/ (c.op = "disable" /\ ApiLast = "404"))
            /\ ApiLast = "403" => c.result = "false"
            /\ c.result = "false" =>
                  (ApiLast = "403" \/ c.attempts = api_max_retries)
            /\ c.result = "retry" =>
                  ~ApiEndsAtOnce(c.op, ApiLast) /\ c.attempts < api_max_retries

Answered(fn) == call # <<>> /\ call[1].fn = fn /\ call[1].returned # <<>>

\* C26: the fallback provider returns the primary's price when there is
\* one, without consulting the fallback; when the primary returns None or
\* raises it returns what the fallback returns; when the fallback raises
\* too it returns None; it never raises.
C26_FallbackChain ==
    Answered("get_price_per_unit") =>
        LET c == call[1]
            r == c.returned[1]
        IN  /\ r.answer.kind # "raise"
            /\ c.primary.kind = "ok" =>
                  r.answer = c.primary /\ r.consulted = <<"primary">>
            /\ (c.primary.kind # "ok" /\ c.fallback.kind # "raise") =>
                  r.answer = c.fallback /\ r.consulted = <<"primary", "fallback">>
            /\ (c.primary.kind # "ok" /\ c.fallback.kind = "raise") =>
                  r.answer.kind = "none"

\* The primary provider raised and the fallback's price was returned.
C26_Witness ==
    /\ Answered("get_price_per_unit")
    /\ call[1].primary.kind = "raise"
    /\ call[1].fallback.kind = "ok"
    /\ call[1].returned[1].answer = call[1].fallback

\* The model key a model id stands for once its publisher path and its
\* version are taken off.
BareModel(model_id) ==
    IF model_id = <<"future-model">> THEN <<"future-model">> ELSE <<"gemini">>

Priced(catalog, key, token_type) ==
    key \in DOMAIN catalog.vertex_ai /\ token_type \in catalog.vertex_ai[key]

\* C27: the token price of a model is that of its exact catalog entry for
\* the token type; failing that, that of the entry of its normalised id;
\* failing that, the service-wide default of the token type; failing that,
\* the global fallback price.  A price is always returned.
C27_ModelPriceOrder ==
    Answered("get_vertex_ai_model_price") =>
        LET c == call[1]
            k == c.catalog
            ty == c.token_type
            exact == Priced(k, c.model_id, ty)
            normal == Priced(k, BareModel(c.model_id), ty)
            price == c.returned[1]
        IN  /\ price # <<>>
            /\ exact => price[1] = PriceOfKey(c.model_id, ty)
            /\ (~exact /\ normal) => price[1] = PriceOfKey(BareModel(c.model_id), ty)
            /\ (~exact /\ ~normal /\ ty \in k.vertex_ai_defaults) =>
                  price[1] = PriceOfDefault(ty)
            /\ (~exact /\ ~normal /\ ty \notin k.vertex_ai_defaults) =>
                  price[1] = (IF k.has_fallback THEN ConfiguredFallbackPrice
                              ELSE BuiltinFallbackPrice)

\* A model id with publisher path and version, without an entry of its
\* own, got the price of its normalised id although a default exists.
C27_Witness ==
    /\ Answered("get_vertex_ai_model_price")
    /\ call[1].model_id = <<"publishers/google", "/models/", "gemini", "@", "001">>
    /\ call[1].token_type \in call[1].catalog.vertex_ai_defaults
    /\ call[1].returned[1] = <<PriceOfKey(<<"gemini">>, call[1].token_type)>>

\* The sum of price times units over the groups whose price was resolved.
RECURSIVE PricedTotal(_)
PricedTotal(groups) ==
    IF groups = <<>> THEN 0
    ELSE (IF Head(groups).price.kind = "ok"
          THEN Head(groups).price.value * Head(groups).units ELSE 0)
         + PricedTotal(Tail(groups))

\* C28: every group the grouped usage query returned has exactly one detail
\* record, in the order of the groups, and the total is the sum of price
\* times units over the groups; a group of a model never seen before is
\* priced and counted like any other; a group whose price cannot be
\* resolved adds 0, is recorded with pricing source "none" and has one
\* warning.
C28_EveryGroupCounted ==
    (Answered("compute_catch_all_expense") /\ call[1].grouped.kind = "ok") =>
        LET groups == call[1].grouped.groups
            r == call[1].returned[1]
            unpriced == {i \in DOMAIN groups : groups[i].price.kind # "ok"}
        IN  /\ Len(r.details) = Len(groups)
            /\ r.total = PricedTotal(groups)
            /\ Len(r.warnings) = Cardinality(unpriced)
            /\ \A i \in DOMAIN groups :
                  /\ i \in DOMAIN r.details
                  /\ r.details[i].unit_count = groups[i].units
                  /\ groups[i].model_user_id # <<>> =>
                        r.details[i].model_id = groups[i].model_user_id[1]
                  /\ groups[i].price.kind = "ok" =>
                        /\ r.details[i].expense =
                              groups[i].price.value * groups[i].units
                        /\ r.details[i].pricing_source # "none"
                  /\ groups[i].price.kind # "ok" =>
                        /\ r.details[i].expense = 0
                        /\ r.details[i].pricing_source = "none"
                        /\ \E w \in DOMAIN r.warnings :
                              /\ r.warnings[w].what = "no_price"
                              /\ r.warnings[w].model_id = r.details[i].model_id

\* Two groups were priced: one of a model never seen before, with a price,
\* and one whose price lookup raised.
C28_Witness ==
    /\ Answered("compute_catch_all_expense")
    /\ call[1].grouped.kind = "ok"
    /\ Len(call[1].grouped.groups) = 2
    /\ call[1].grouped.groups[1].model_user_id = <<"future-model">>
    /\ call[1].grouped.groups[1].price.kind = "ok"
    /\ call[1].grouped.groups[1].units > 0
    /\ call[1].grouped.groups[2].price.kind = "raise"
    /\ call[1].returned[1].total > 0
    /\ Len(call[1].returned[1].details) = 2

\* C29: after any number of record_action calls the history holds at most
\* 200 entries; they are the entries of the most recent calls, in the order
\* of the calls and as they were appended.
C29_HistoryKeepsNewest ==
    LET n == Len(action_history)
    IN  /\ n <= HistoryLimit
        /\ n = (IF nops < HistoryLimit THEN nops ELSE HistoryLimit)
        /\ \A i \in 1..n : action_history[i] = HistoryEntry(nops - n + i)

\* More calls were made than the history holds, and the oldest entry left
\* is that of the call made 200 calls ago.
C29_Witness ==
    /\ nops > HistoryLimit + 1
    /\ Len(action_history) = HistoryLimit
    /\ action_history[1].timestamp = nops - HistoryLimit + 1

\* C30: when every save since the StateManager was built succeeded, a new
\* StateManager built over the same backend holds the same baselines, last
\* known costs, alert flags, action history and current month.
C30_ReloadGivesSameLedger ==
    [][(PersistRestart /\ SavesSucceeded) => LedgerDoc' = LedgerDoc]_vars

\* A StateManager was rebuilt over a document that holds a baseline, an
\* alert flag and a history entry, and reads the three of them.
C30_Witness ==
    /\ call # <<>>
    /\ call[1].fn = "__init__"
    /\ doc # <<>>
    /\ baselines # EmptyDict
    /\ alerts_sent # EmptyDict
    /\ action_history # <<>>

\* C31: when the save of a mutating call fails, the call returns normally,
\* the ledger in memory holds what the call made of it, and the persisted
\* document still reads as it did before the call.
C31_FailedSaveKeepsDocument ==
    [][(nops' = nops + 1 /\ call'[1].write \in {"refused", "partial"}) =>
          /\ LedgerDoc' = ApplyCall(call'[1].op, LedgerDoc)
          /\ load(doc') = load(doc)]_vars

\* The entries of every service but s are the same in d1 and d2.
OthersSame(d1, d2, s) ==
    \A k \in Services \ {s} :
        /\ k \in DOMAIN d1 <=> k \in DOMAIN d2
        /\ k \in DOMAIN d1 => d1[k] = d2[k]

Occurrences(q, x) == Cardinality({i \in DOMAIN q : q[i] = x})

\* C32: set_baseline(s), set_last_known_cost(s), set_alert_sent(s, level)
\* and reset_alerts(s) change the entry of s in their own map and nothing
\* else of the baselines, costs and alert flags; after set_alert_sent the
\* level is recorded once for s, and recording a level already recorded
\* changes nothing.
C32_MutationsPerService ==
    [][nops' = nops + 1 =>
        LET op == call'[1].op
            s == op.key
        IN  /\ op.name = "set_baseline" =>
                  /\ s \in DOMAIN baselines' /\ baselines'[s] = op.cost
                  /\ OthersSame(baselines, baselines', s)
                  /\ UNCHANGED <<last_known_costs, alerts_sent>>
            /\ op.name = "set_last_known_cost" =>
                  /\ s \in DOMAIN last_known_costs' /\ last_known_costs'[s] = op.cost
                  /\ OthersSame(last_known_costs, last_known_costs', s)
                  /\ UNCHANGED <<baselines, alerts_sent>>
            /\ op.name = "set_alert_sent" =>
                  /\ s \in DOMAIN alerts_sent'
                  /\ Occurrences(alerts_sent'[s], op.level) = 1
                  /\ (s \in DOMAIN alerts_sent
                      /\ Occurrences(alerts_sent[s], op.level) > 0) =>
                        alerts_sent' = alerts_sent
                  /\ OthersSame(alerts_sent, alerts_sent', s)
                  /\ UNCHANGED <<baselines, last_known_costs>>
            /\ op.name = "reset_alerts" =>
                  /\ s \notin DOMAIN alerts_sent'
                  /\ OthersSame(alerts_sent, alerts_sent', s)
                  /\ UNCHANGED <<baselines, last_known_costs>>]_vars

\* The alert flags of one service were cleared while another service had
\* a flag, which it still has.
C32_Witness ==
    /\ call # <<>>
    /\ call[1].fn = "reset_alerts"
    /\ \E k \in DOMAIN alerts_sent : k # call[1].op.key /\ alerts_sent[k] # <<>>

\* C33: in the evaluation of a service the critical action (the disable of
\* its API and the CRITICAL alert) is taken exactly when its expense is at
\* least the configured critical percentage of its budget.
C33_CriticalAtConfiguredPct ==
    Evaluated =>
        LET e == calls[1]
            b == monthly_budget(e.svc)
        IN  (AlertsOf("CRITICAL") # {}) <=>
                (b > 0 /\ e.expense * 100 >= critical_threshold_pct * b)

\* C34: when a reset of a service that overlapped a check cycle has
\* returned status "success" and no cycle is running, the API of the
\* service is enabled.
C34_ResetSurvivesOverlap ==
    (/\ ~dry_run
     /\ At(ResetThread, "done")
     /\ threads[ResetThread].buf[1].status = "success"
     /\ threads[CycleThread].pc \in {"idle", "done"}) =>
        api_status[ActiveService] = "ENABLED"

\* C35: the expense a cycle adds for a line item is the price this cycle
\* read times the units this cycle read (0 when it read no price),
\* whatever another cycle running at the same time has read.
C35_OwnReadingsOnly ==
    \A t \in Threads :
        At(t, "added") =>
            LET own == threads[t].buf[1]
            IN  own.current_expense =
                    (IF own.price # <<>> THEN own.price[1] * own.units ELSE 0)

\* C36: every baseline that reset_service has saved on the first instance
\* is in the persisted document, with its value, whatever the second
\* instance has saved since.
C36_SavedBaselineStays ==
    \A s \in DOMAIN baselines :
        /\ s \in DOMAIN load(doc).baselines
        /\ load(doc).baselines[s] = baselines[s]

\* C37: a check cycle whose re-enable-all step enabled an API that was
\* disabled had found a stored billing month: a ledger without one does
\* not get the disabled APIs re-enabled.
C37_ReEnableNeedsStoredMonth ==
    (call # <<>> /\ call[1].enabled # {}) => call[1].stored # NoMonth

C39_DisableEveryCycle ==
    [][(/\ pc = "eval"
        /\ pc' = "done"
        /\ ~dry_run
        /\ calls'[1].expense >= monthly_budget(ActiveService))
       => /\ \E i \in DOMAIN calls' :
                /\ calls'[i].op = "disable"
                /\ calls'[i].api = MONITORED_API_SERVICES[ActiveService]
                /\ calls'[i].issued
                /\ calls'[i].ok => api_status'[ActiveService] = "DISABLED"]_vars

\* A cycle whose disable call failed is followed by a cycle that calls
\* disable again while the critical alert is in its cooldown.
C39_Witness ==
    /\ pc = "done"
    /\ ~dry_run
    /\ reply # <<>>
    /\ \E i \in DOMAIN reply[1].calls :
          reply[1].calls[i].op = "disable" /\ ~reply[1].calls[i].ok
    /\ \E i \in DOMAIN calls : calls[i].op = "disable" /\ calls[i].issued
    /\ \E i \in DOMAIN calls : calls[i].op = "alert" /\ calls[i].suppressed

\* C40: in every evaluation an alert is reported and recorded as sent
\* (its send time kept) exactly when it passed the cooldown test and the
\* email or the Pub/Sub publish delivered it; an alert that no channel
\* delivered leaves the send times as they were, so that the next cycle
\* that calls for it passes the cooldown test and tries the channels
\* again; the service is listed in warnings_sent exactly when its warning
\* was sent.
C40_SentOnlyWhenDelivered ==
    [][(pc = "eval" /\ pc' = "done") =>
        /\ \A i \in DOMAIN calls' :
              calls'[i].op = "alert" =>
                LET e == calls'[i]
                    key == <<e.svc, e.level>>
                IN  /\ e.sent <=> (~e.suppressed /\ (e.email \/ e.pubsub))
                    /\ e.sent => key \in DOMAIN last_sent' /\ last_sent'[key] = now
                    /\ ~e.sent => DictGet(last_sent', key, 0) = DictGet(last_sent, key, 0)
                    /\ (~e.suppressed /\ ~e.sent) =>
                          now - DictGet(last_sent', key, 0) >= ALERT_COOLDOWN_SECONDS
                    /\ (reply # <<>> /\ \E j \in DOMAIN reply[1].calls :
                            /\ reply[1].calls[j].op = "alert"
                            /\ reply[1].calls[j].level = e.level
                            /\ ~reply[1].calls[j].suppressed
                            /\ ~reply[1].calls[j].sent)
                         => ~e.suppressed
        /\ (\E i \in DOMAIN warnings_sent' : warnings_sent'[i] = ActiveService)
              <=> (\E i \in DOMAIN calls' :
                      /\ calls'[i].op = "alert"
                      /\ calls'[i].level = "WARNING"
                      /\ calls'[i].sent)]_vars

\* A warning that no channel delivered in one cycle is tried again in the
\* next and sent through Pub/Sub alone.
C40_Witness ==
    /\ pc = "done"
    /\ reply # <<>>
    /\ reply[1].warnings_sent = <<>>
    /\ \E j \in DOMAIN reply[1].calls :
          /\ reply[1].calls[j].op = "alert"
          /\ reply[1].calls[j].level = "WARNING"
          /\ ~reply[1].calls[j].suppressed
          /\ ~reply[1].calls[j].sent
    /\ \E i \in DOMAIN calls :
          /\ calls[i].op = "alert"
          /\ calls[i].level = "WARNING"
          /\ calls[i].sent
          /\ calls[i].pubsub
          /\ ~calls[i].email
    /\ warnings_sent = <<ActiveService>>

====
